---- MODULE Spec2Model ----
(***************************************************************************)
(* Real-time voice gateway: protocol adapters (OpenAI Realtime,            *)
(* ElevenLabs ConvAI) and session bridges (direct /ws endpoint, Twilio     *)
(* media-stream bridge).                                                   *)
(*                                                                         *)
(* SpecAdapter : the receive() generators of the two websocket adapters,   *)
(*               driven by inbound backend frames.                         *)
(* SpecBridge  : the two bridges, driven by client frames and by           *)
(*               canonical provider events.                                *)
(* SpecPure    : the audio codec and the tool-schema translation, each     *)
(*               applied to one input.                                     *)
(* SpecSessions: two session objects side by side: the OpenAI handshake,   *)
(*               the send methods, close() and the per-session state.      *)
(***************************************************************************)
EXTENDS Integers, Sequences, FiniteSets, TLC

\* ------------------------------------------------------------------ bounds
MaxArgsLen == 4
\* longest accumulated function-call argument text, in tokens
MaxCount == 2
\* saturation value of the observation counters
MaxEventId == 3
\* largest ElevenLabs event id drawn
MaxPing == 1
\* largest ping event id drawn

\* ------------------------------------------------------- text / wire model
\* A text is a sequence of tokens.  "{" and "}" are the JSON braces, " " is
\* white space, every other token ("a", "b") is payload.
\* json.loads on an argument text: an object is "{" payload* "}"; the value
\* of the object is its payload.  Anything else raises JSONDecodeError.
WellFormed(s) ==
    /\ Len(s) >= 2
    /\ s[1] = "{"
    /\ s[Len(s)] = "}"
    /\ \A i \in 2..(Len(s) - 1) : s[i] \notin {"{", "}"}

JsonValue(s) == SubSeq(s, 2, Len(s) - 1)

\* openai_rt.py 297-300: args = json.loads(args_str) if args_str else {};
\* JSONDecodeError gives {}.  {} is the empty payload.
ParseArgs(s) == IF s # <<>> /\ WellFormed(s) THEN JsonValue(s) ELSE <<>>

\* str.strip(): drop leading and trailing white space
RECURSIVE LStrip(_)
LStrip(s) == IF s # <<>> /\ Head(s) = " " THEN LStrip(Tail(s)) ELSE s

RECURSIVE RStrip(_)
RStrip(s) ==
    IF s # <<>> /\ s[Len(s)] = " " THEN RStrip(SubSeq(s, 1, Len(s) - 1)) ELSE s

Strip(s) == RStrip(LStrip(s))

\* base64.b64decode: a payload is a sequence of base64 characters; decoding
\* raises binascii.Error unless the length is a multiple of four, and gives
\* three bytes per quad less the padding.
B64Valid(p) == Len(p) % 4 = 0

B64Decode(p) ==
    (3 * (Len(p) \div 4)) - Cardinality({i \in 1..Len(p) : p[i] = "="})

Payloads == { <<>>, <<"A", "A", "=", "=">>, <<"A">> }

\* fragments of a function-call argument text, as the backend streams them
Frags == { <<"{", "a">>, <<"b", "}">> }

\* complete argument texts a done message may carry
ArgTexts == { <<>>, <<"{", "a", "}">> }

Transcripts == { <<>>, <<" ">>, <<" ", "b">> }

Calls == {"call_1", "call_2"}

NameOf(c) ==
    CASE c = "call_1" -> "get_weather"
      [] c = "call_2" -> "calculate"
      [] OTHER -> "lookup"

EventIds == 0..MaxEventId

IdKinds == {"num", "missing", "bad"}

ResponseStatus == {"completed", "cancelled", "failed"}

IgnoredTypes == {"session.created", "unhandled"}

\* the ping_ms member of a ping_event is a JSON literal: "20", "null";
\* `ping_ms > 0` raises TypeError unless ping_ms is a number
DelayRaises(ms) == ms = "null"

\* ------------------------------------------------------ canonical events
Ev(t) ==
    [type |-> t, data |-> 0, text |-> <<>>, tool_name |-> "",
     tool_args |-> <<>>, tool_id |-> ""]

AudioEv(n) == [Ev("audio") EXCEPT !.data = n]

TextEv(t, s) == [Ev(t) EXCEPT !.text = s]

ToolCallEv(name, args, id) ==
    [Ev("tool_call") EXCEPT !.tool_name = name, !.tool_args = args, !.tool_id = id]

\* an inbound backend frame.  For a function-call done message obsAdded and
\* obsArgs record whether its call had an item-added message and the JSON parse
\* of that call's deltas since; for a response.done message inResp records
\* whether a response was in progress.
Fr(k) ==
    [kind |-> k, call |-> "", text |-> <<>>, has |-> FALSE, hasName |-> FALSE,
     idk |-> "num", id |-> 0, status |-> "", inResp |-> FALSE,
     obsAdded |-> FALSE, obsArgs |-> <<>>]

Cap(n) == IF n < MaxCount THEN n + 1 ELSE n

CountType(evs, t) == Cardinality({i \in 1..Len(evs) : evs[i].type = t})

\* --------------------------------------------------------------- state
VARIABLES
    adapter,              \* "openai" | "elevenlabs" | "none"
    rxStream,             \* receive() generator: "open" | "ended"
    consumer,             \* async-for over receive(): "consuming" | "finished"
    lastFrame,            \* the inbound frame processed last
    emitted,              \* events yielded while processing lastFrame
    session_closed,       \* VoiceSession._closed
    in_response,          \* OpenAIRealtimeSession._in_response
    current_fc_name,      \* ._current_fc_name  ("" is None)
    current_fc_args,      \* ._current_fc_args
    current_fc_call_id,   \* ._current_fc_call_id ("" is None)
    current_fc_item_id,   \* ._current_fc_item_id ("" is None)
    last_interrupt_id,    \* ElevenLabsSession._last_interrupt_id
    conversation_id,      \* ElevenLabsSession._conversation_id
    pongs,                \* scheduled _send_pong tasks: <<event_id, ping_ms>>
    pongsSent,            \* event ids whose latest ping had its pong written
    respObs,              \* observation: since response.created, speech-started
                          \* seen and the Interrupted events emitted; open:
                          \* response.created received, no response.done since
    fcObs,                \* observation: per call, item-added seen and its deltas since
    intrSeen              \* observation: interruption ids processed

adapterState ==
    <<in_response, current_fc_name, current_fc_args, current_fc_call_id,
      current_fc_item_id, last_interrupt_id, conversation_id>>

oaiState ==
    <<in_response, current_fc_name, current_fc_args, current_fc_call_id,
      current_fc_item_id>>

fcState ==
    <<current_fc_name, current_fc_args, current_fc_call_id, current_fc_item_id>>

elState == <<last_interrupt_id, conversation_id>>

pongState == <<pongs, pongsSent>>

obsState == <<respObs, fcObs, intrSeen>>

adapterVars ==
    <<adapter, rxStream, consumer, lastFrame, emitted, session_closed,
      adapterState, pongState, obsState>>

VARIABLES
    variant,              \* "direct" | "telephony" | "none"
    main,                 \* position of the endpoint handler coroutine
    ws,                   \* client transport: "open" | "gone" | "closed"
    session,              \* backend session: "none" | "open" | "dropped" | "closed"
    provider_name,        \* the provider named by the session's opening message
    pump,                 \* task status per pump
    nClient,              \* client frames read so far
    nBackend,             \* backend events taken so far
    stream_sid,           \* TwilioAudioBridge.stream_sid ("" is None or empty)
    bridge_closed,        \* TwilioAudioBridge._closed
    provPc,               \* _recv_from_provider: "recv" | "flush"
    current_caller_text,  \* ._current_caller_text
    current_agent_text,   \* ._current_agent_text
    audio_queue,          \* server.py audio_queue
    text_queue,           \* server.py text_queue
    batch,                \* recv_from_gemini: function calls left, responses built
    sentAudio,            \* audio chunks passed to the backend session
    sentText,             \* text messages passed to the backend session
    lastOut,              \* the last message written to the client (telephony:
                          \* by the provider event handled last)
    toolCalls,            \* observation: the calls of the last tool-call message
                          \* executed so far, with the executor's result
    toolSent,             \* the results passed to the backend session for them
    lastFlush,            \* transcript sink calls of the last flush
    callObs               \* observation: run() entered, start/stop seen, audio passed on before
                          \* the stop, the last interruption, on_call_end calls

bridgeCore == <<variant, main, ws, session, provider_name, pump, nClient, nBackend>>

telState ==
    <<stream_sid, bridge_closed, provPc, current_caller_text, current_agent_text>>

directState == <<audio_queue, text_queue, batch>>

bridgeObs == <<sentAudio, sentText, lastOut, toolCalls, toolSent, lastFlush, callObs>>

bridgeVars == <<bridgeCore, telState, directState, bridgeObs>>

VARIABLES
    fn,                   \* the codec or translation function called
    arg,                  \* its arguments
    returned,             \* whether the call has finished
    outcome               \* what it returned, or that it raised

pureVars == <<fn, arg, returned, outcome>>

VARIABLES
    sess                  \* per voice session: the attributes of the session
                          \* object and of the bridge that owns it

vars == <<adapterVars, bridgeVars, pureVars, sess>>

NoCallObs == [added |-> FALSE, deltas |-> <<>>]

InitAdapterIdle ==
    /\ rxStream = "open"
    /\ consumer = "consuming"
    /\ lastFrame = Fr("connect")
    /\ emitted = <<>>
    /\ session_closed = FALSE
    /\ in_response = FALSE
    /\ current_fc_name = ""
    /\ current_fc_args = <<>>
    /\ current_fc_call_id = ""
    /\ current_fc_item_id = ""
    /\ last_interrupt_id = 0
    /\ conversation_id = ""
    /\ pongs = {}
    /\ pongsSent = {}
    /\ respObs = [speech |-> FALSE, intr |-> 0, open |-> FALSE]
    /\ fcObs = [c \in Calls |-> NoCallObs]
    /\ intrSeen = {}

\* ------------------------------------------------ receive(): common steps
Receiving(a) == adapter = a /\ rxStream = "open" /\ consumer = "consuming"

\* the frame is handled and the loop continues with the events evs yielded
Yield(f, evs) ==
    /\ lastFrame' = f
    /\ emitted' = evs
    /\ UNCHANGED <<adapter, rxStream, consumer, session_closed>>

\* an exception other than ConnectionClosed leaves the loop:
\* `except Exception as e: yield ProviderEvent(type=ERROR)` and the generator ends
Raise(f) ==
    /\ lastFrame' = f
    /\ emitted' = <<Ev("error")>>
    /\ rxStream' = "ended"
    /\ UNCHANGED <<adapter, consumer, session_closed>>

\* `except websockets.exceptions.ConnectionClosed`: logged, nothing yielded
\* faulty variant of ConnectionClosedEvents: the drop is reported as an Error
ConnectionClosedEventsWithError == <<Ev("error")>>

ConnectionClosedEvents == <<>>

ConnectionClosed ==
    /\ adapter \in {"openai", "elevenlabs"}
    /\ rxStream = "open"
    /\ consumer = "consuming"
    /\ lastFrame' = Fr("ConnectionClosed")
    /\ emitted' = ConnectionClosedEvents
    /\ rxStream' = "ended"
    /\ UNCHANGED <<adapter, consumer, session_closed, adapterState, pongState, obsState>>
    /\ UNCHANGED <<bridgeVars, pureVars, sess>>

\* close(): _closed = True, the socket is closed and the iteration stops;
\* the close frame records in `has` whether _send_pong tasks were pending
SessionClose ==
    /\ adapter \in {"openai", "elevenlabs"}
    /\ ~session_closed
    /\ session_closed' = TRUE
    /\ rxStream' = "ended"
    /\ lastFrame' = [Fr("close") EXCEPT !.has = pongs # {}]
    /\ emitted' = <<>>
    /\ UNCHANGED <<adapter, consumer, adapterState, pongState, obsState>>
    /\ UNCHANGED <<bridgeVars, pureVars, sess>>

\* _recv_from_provider: `async for event in self.session.receive()` is over
ConsumerLoopEnds ==
    /\ adapter \in {"openai", "elevenlabs"}
    /\ rxStream = "ended"
    /\ consumer = "consuming"
    /\ consumer' = "finished"
    /\ UNCHANGED <<adapter, rxStream, lastFrame, emitted, session_closed,
                   adapterState, pongState, obsState>>
    /\ UNCHANGED <<bridgeVars, pureVars, sess>>

\* ------------------------------------------- OpenAIRealtimeSession.receive
\* json.loads(raw) raises JSONDecodeError: `continue`
OaiNotJson ==
    /\ Receiving("openai")
    /\ Yield(Fr("notjson"), <<>>)
    /\ UNCHANGED <<adapterState, pongState, obsState>>
    /\ UNCHANGED <<bridgeVars, pureVars, sess>>

\* valid JSON that is not an object: msg.get raises AttributeError
OaiNonObject ==
    /\ Receiving("openai")
    /\ Raise(Fr("nonobject"))
    /\ UNCHANGED <<adapterState, pongState, obsState>>
    /\ UNCHANGED <<bridgeVars, pureVars, sess>>

\* session.created / session.updated / speech_stopped / rate limits / unhandled
OaiIgnored(t) ==
    /\ Receiving("openai")
    /\ Yield(Fr(t), <<>>)
    /\ UNCHANGED <<adapterState, pongState, obsState>>
    /\ UNCHANGED <<bridgeVars, pureVars, sess>>

\* response.output_audio.delta
OaiAudioDelta(p) ==
    /\ Receiving("openai")
    /\ LET f == [Fr("response.output_audio.delta") EXCEPT !.text = p]
       IN  IF p = <<>> THEN Yield(f, <<>>)
           ELSE IF B64Valid(p) THEN Yield(f, <<AudioEv(B64Decode(p))>>)
           ELSE Raise(f)
    /\ UNCHANGED <<adapterState, pongState, obsState>>
    /\ UNCHANGED <<bridgeVars, pureVars, sess>>

\* response.output_audio_transcript.delta
OaiTranscriptDelta(t) ==
    /\ Receiving("openai")
    /\ LET f == [Fr("response.output_audio_transcript.delta") EXCEPT !.text = t]
       IN  Yield(f, IF t # <<>> THEN <<TextEv("transcript_agent", t)>> ELSE <<>>)
    /\ UNCHANGED <<adapterState, pongState, obsState>>
    /\ UNCHANGED <<bridgeVars, pureVars, sess>>

\* conversation.item.input_audio_transcription.completed
OaiUserTranscript(t) ==
    /\ Receiving("openai")
    /\ LET f == [Fr("input_audio_transcription.completed") EXCEPT !.text = t]
       IN  Yield(f, IF Strip(t) # <<>>
                    THEN <<TextEv("transcript_user", Strip(t))>> ELSE <<>>)
    /\ UNCHANGED <<adapterState, pongState, obsState>>
    /\ UNCHANGED <<bridgeVars, pureVars, sess>>

\* response.function_call_arguments.delta
OaiArgsDelta(c, frag) ==
    /\ Receiving("openai")
    /\ Len(current_fc_args) + Len(frag) <= MaxArgsLen
    /\ current_fc_args' = current_fc_args \o frag
    /\ fcObs' = [fcObs EXCEPT ![c].deltas =
                    IF fcObs[c].added /\ Len(@) + Len(frag) <= MaxArgsLen
                    THEN @ \o frag ELSE @]
    /\ Yield([Fr("response.function_call_arguments.delta")
                 EXCEPT !.call = c, !.text = frag], <<>>)
    /\ UNCHANGED <<in_response, current_fc_name, current_fc_call_id,
                   current_fc_item_id, elState, pongState, respObs, intrSeen>>
    /\ UNCHANGED <<bridgeVars, pureVars, sess>>

\* response.function_call_arguments.done; call_id is always present, the
\* arguments and the name may be omitted
OaiArgsDone(c, hasArgs, args, hasName) ==
    /\ Receiving("openai")
    /\ LET args_str == IF hasArgs THEN args ELSE current_fc_args
           name == IF hasName THEN NameOf(c) ELSE current_fc_name
           f == [Fr("response.function_call_arguments.done")
                    EXCEPT !.call = c, !.has = hasArgs, !.text = args,
                           !.hasName = hasName, !.obsAdded = fcObs[c].added,
                           !.obsArgs = ParseArgs(fcObs[c].deltas)]
       IN  Yield(f, <<ToolCallEv(name, ParseArgs(args_str), c)>>)
    /\ current_fc_name' = ""
    /\ current_fc_args' = <<>>
    /\ current_fc_call_id' = ""
    /\ current_fc_item_id' = ""
    /\ fcObs' = [fcObs EXCEPT ![c] = NoCallObs]
    /\ UNCHANGED <<in_response, elState, pongState, respObs, intrSeen>>
    /\ UNCHANGED <<bridgeVars, pureVars, sess>>

\* response.output_item.added
OaiItemAdded(c, isFunctionCall) ==
    /\ Receiving("openai")
    /\ Yield([Fr("response.output_item.added")
                 EXCEPT !.call = c, !.has = isFunctionCall], <<>>)
    /\ IF isFunctionCall
       THEN /\ current_fc_name' = NameOf(c)
            /\ current_fc_call_id' = c
            /\ current_fc_item_id' = c
            /\ current_fc_args' = <<>>
            /\ fcObs' = [fcObs EXCEPT ![c] = [added |-> TRUE, deltas |-> <<>>]]
       ELSE UNCHANGED <<fcState, fcObs>>
    /\ UNCHANGED <<in_response, elState, pongState, respObs, intrSeen>>
    /\ UNCHANGED <<bridgeVars, pureVars, sess>>

\* response.created
OaiResponseCreated ==
    /\ Receiving("openai")
    /\ Yield(Fr("response.created"), <<>>)
    /\ in_response' = TRUE
    /\ respObs' = [speech |-> FALSE, intr |-> 0, open |-> TRUE]
    /\ UNCHANGED <<fcState, elState, pongState, fcObs, intrSeen>>
    /\ UNCHANGED <<bridgeVars, pureVars, sess>>

\* response.done
\* faulty variant of DoneEvent: the status is not looked at
DoneEventIgnoringStatus(status) == Ev("turn_complete")

DoneEvent(status) ==
    IF status = "cancelled" THEN Ev("interrupted") ELSE Ev("turn_complete")

OaiResponseDone(status) ==
    /\ Receiving("openai")
    /\ Yield([Fr("response.done") EXCEPT !.status = status, !.inResp = in_response],
             <<DoneEvent(status)>>)
    /\ in_response' = FALSE
    /\ respObs' = [respObs EXCEPT !.intr = IF status = "cancelled" THEN Cap(@) ELSE @,
                                  !.open = FALSE]
    /\ UNCHANGED <<fcState, elState, pongState, fcObs, intrSeen>>
    /\ UNCHANGED <<bridgeVars, pureVars, sess>>

\* input_audio_buffer.speech_started
\* faulty variant of SpeechStartedEvents: every speech-started interrupts
SpeechStartedEventsAlways(in_resp) == <<Ev("interrupted")>>

SpeechStartedEvents(in_resp) ==
    IF in_resp THEN <<Ev("interrupted")>> ELSE <<>>

OaiSpeechStarted ==
    /\ Receiving("openai")
    /\ Yield(Fr("input_audio_buffer.speech_started"), SpeechStartedEvents(in_response))
    /\ respObs' = IF in_response
                  THEN [respObs EXCEPT !.speech = TRUE, !.intr = Cap(@)]
                  ELSE respObs
    /\ UNCHANGED <<adapterState, pongState, fcObs, intrSeen>>
    /\ UNCHANGED <<bridgeVars, pureVars, sess>>

\* error
OaiError ==
    /\ Receiving("openai")
    /\ Yield(Fr("error"), <<Ev("error")>>)
    /\ UNCHANGED <<adapterState, pongState, obsState>>
    /\ UNCHANGED <<bridgeVars, pureVars, sess>>

OaiNext ==
    \/ OaiNotJson
    \/ OaiNonObject
    \/ \E t \in IgnoredTypes : OaiIgnored(t)
    \/ \E p \in Payloads : OaiAudioDelta(p)
    \/ \E t \in Transcripts : OaiTranscriptDelta(t)
    \/ \E t \in Transcripts : OaiUserTranscript(t)
    \/ \E c \in Calls, frag \in Frags : OaiArgsDelta(c, frag)
    \/ \E c \in Calls, hasArgs \in BOOLEAN, args \in ArgTexts, hasName \in BOOLEAN :
          /\ (~hasArgs => args = <<>>)
          /\ OaiArgsDone(c, hasArgs, args, hasName)
    \/ \E c \in Calls, isFn \in BOOLEAN : OaiItemAdded(c, isFn)
    \/ OaiResponseCreated
    \/ \E st \in ResponseStatus : OaiResponseDone(st)
    \/ OaiSpeechStarted
    \/ OaiError

\* ----------------------------------------------- ElevenLabsSession.receive
\* int(event.get("event_id", 0)): a missing id is 0
IntOf(f) == IF f.idk = "missing" THEN 0 ELSE f.id

ElFrame(k, idk, id) ==
    [Fr(k) EXCEPT !.idk = idk, !.id = IF idk = "num" THEN id ELSE 0]

ElNotJson ==
    /\ Receiving("elevenlabs")
    /\ Yield(Fr("notjson"), <<>>)
    /\ UNCHANGED <<adapterState, pongState, obsState>>
    /\ UNCHANGED <<bridgeVars, pureVars, sess>>

ElNonObject ==
    /\ Receiving("elevenlabs")
    /\ Raise(Fr("nonobject"))
    /\ UNCHANGED <<adapterState, pongState, obsState>>
    /\ UNCHANGED <<bridgeVars, pureVars, sess>>

\* conversation_initiation_metadata
ElMetadata ==
    /\ Receiving("elevenlabs")
    /\ Yield(Fr("conversation_initiation_metadata"), <<>>)
    /\ conversation_id' = "conv_1"
    /\ UNCHANGED <<oaiState, last_interrupt_id, pongState, obsState>>
    /\ UNCHANGED <<bridgeVars, pureVars, sess>>

\* an audio frame at or below the watermark is stale
Stale(event_id, watermark) == event_id <= watermark

\* audio
ElAudio(idk, id, p) ==
    /\ Receiving("elevenlabs")
    /\ LET f == [ElFrame("audio", idk, id) EXCEPT !.text = p]
       IN  IF idk = "bad" THEN Raise(f)
           ELSE IF Stale(IntOf(f), last_interrupt_id) THEN Yield(f, <<>>)
           ELSE IF p = <<>> THEN Yield(f, <<>>)
           ELSE IF B64Valid(p) THEN Yield(f, <<AudioEv(B64Decode(p))>>)
           ELSE Raise(f)
    /\ UNCHANGED <<adapterState, pongState, obsState>>
    /\ UNCHANGED <<bridgeVars, pureVars, sess>>

\* user_transcript
ElUserTranscript(t) ==
    /\ Receiving("elevenlabs")
    /\ Yield([Fr("user_transcript") EXCEPT !.text = t],
             IF Strip(t) # <<>> THEN <<TextEv("transcript_user", Strip(t))>> ELSE <<>>)
    /\ UNCHANGED <<adapterState, pongState, obsState>>
    /\ UNCHANGED <<bridgeVars, pureVars, sess>>

\* agent_response: a transcript and the turn's end
\* faulty variant of AgentResponseEvents: the turn's end is yielded unconditionally
AgentResponseEventsAlwaysEndTurn(text) ==
    IF text # <<>>
    THEN <<TextEv("transcript_agent", text), Ev("turn_complete")>>
    ELSE <<Ev("turn_complete")>>

\* `if text:` two yields, TRANSCRIPT_AGENT then TURN_COMPLETE
AgentResponseEvents(text) ==
    IF text # <<>>
    THEN <<TextEv("transcript_agent", text), Ev("turn_complete")>>
    ELSE <<>>

ElAgentResponse(t) ==
    /\ Receiving("elevenlabs")
    /\ Yield([Fr("agent_response") EXCEPT !.text = t], AgentResponseEvents(Strip(t)))
    /\ UNCHANGED <<adapterState, pongState, obsState>>
    /\ UNCHANGED <<bridgeVars, pureVars, sess>>

\* agent_response_correction: "[corrected] " + text
ElCorrection(t) ==
    /\ Receiving("elevenlabs")
    /\ Yield([Fr("agent_response_correction") EXCEPT !.text = t],
             IF Strip(t) # <<>>
             THEN <<TextEv("transcript_agent", <<"[corrected]", " ">> \o Strip(t))>>
             ELSE <<>>)
    /\ UNCHANGED <<adapterState, pongState, obsState>>
    /\ UNCHANGED <<bridgeVars, pureVars, sess>>

\* interruption
ElInterruption(idk, id) ==
    /\ Receiving("elevenlabs")
    /\ LET f == ElFrame("interruption", idk, id)
       IN  IF idk = "bad"
           THEN /\ Raise(f)
                /\ UNCHANGED <<last_interrupt_id, intrSeen>>
           ELSE /\ Yield(f, <<Ev("interrupted")>>)
                /\ last_interrupt_id' = IntOf(f)
                /\ intrSeen' = intrSeen \cup {IntOf(f)}
    /\ UNCHANGED <<oaiState, conversation_id, pongState, respObs, fcObs>>
    /\ UNCHANGED <<bridgeVars, pureVars, sess>>

\* ping: asyncio.create_task(self._send_pong(event_id, ping_ms))
ElPing(id, ms) ==
    /\ Receiving("elevenlabs")
    /\ \A p \in pongs : p[1] # id
    /\ Yield([Fr("ping") EXCEPT !.id = id], <<>>)
    /\ pongs' = pongs \cup {<<id, ms>>}
    /\ pongsSent' = pongsSent \ {id}
    /\ UNCHANGED <<adapterState, obsState>>
    /\ UNCHANGED <<bridgeVars, pureVars, sess>>

\* _send_pong: `if ping_ms > 0: await asyncio.sleep(...)`, then
\* `if not self._closed: await self._ws.send(pong)`, all inside
\* `try: ... except Exception: pass`
\* faulty variant of PongWritten: _closed is not looked at after the delay
PongWrittenUnguarded(ms, closed, fails) == ~DelayRaises(ms) /\ ~fails

\* the pong frame reaches the socket: no TypeError on the delay, the session
\* is not closed when the delay is over, and ws.send does not raise
PongWritten(ms, closed, fails) == ~DelayRaises(ms) /\ ~closed /\ ~fails

ElSendPong(id, ms, fails) ==
    /\ adapter = "elevenlabs"
    /\ <<id, ms>> \in pongs
    /\ pongs' = pongs \ {<<id, ms>>}
    /\ pongsSent' = IF PongWritten(ms, session_closed, fails)
                     THEN pongsSent \cup {id}
                     ELSE pongsSent
    /\ UNCHANGED <<adapter, rxStream, consumer, lastFrame, emitted, session_closed,
                   adapterState, obsState>>
    /\ UNCHANGED <<bridgeVars, pureVars, sess>>

\* client_tool_call
ElToolCall(c) ==
    /\ Receiving("elevenlabs")
    /\ Yield([Fr("client_tool_call") EXCEPT !.call = c],
             <<ToolCallEv(NameOf(c), <<"a">>, c)>>)
    /\ UNCHANGED <<adapterState, pongState, obsState>>
    /\ UNCHANGED <<bridgeVars, pureVars, sess>>

\* any other message type falls through the loop body
ElUnhandled ==
    /\ Receiving("elevenlabs")
    /\ Yield(Fr("unhandled"), <<>>)
    /\ UNCHANGED <<adapterState, pongState, obsState>>
    /\ UNCHANGED <<bridgeVars, pureVars, sess>>

ElNext ==
    \/ ElNotJson
    \/ ElNonObject
    \/ ElMetadata
    \/ \E idk \in IdKinds, id \in EventIds, p \in Payloads :
          /\ (idk # "num" => id = 0)
          /\ ElAudio(idk, id, p)
    \/ \E t \in Transcripts : ElUserTranscript(t)
    \/ \E t \in Transcripts : ElAgentResponse(t)
    \/ \E t \in Transcripts : ElCorrection(t)
    \/ \E idk \in IdKinds, id \in EventIds :
          /\ (idk # "num" => id = 0)
          /\ ElInterruption(idk, id)
    \/ \E id \in 1..MaxPing, ms \in {"20", "null"} : ElPing(id, ms)
    \/ \E id \in 1..MaxPing, ms \in {"20", "null"}, fails \in BOOLEAN :
          ElSendPong(id, ms, fails)
    \/ \E c \in Calls : ElToolCall(c)
    \/ ElUnhandled

\* ------------------------------------------------------- SpecAdapter
AdapterNext ==
    \/ OaiNext
    \/ ElNext
    \/ ConnectionClosed
    \/ SessionClose
    \/ ConsumerLoopEnds

\* ====================================================================
\* Session bridges
\* ====================================================================
MaxClientFrames == 2
\* frames read from the client transport in one session
MaxBackendEvents == 2
\* messages taken from the backend in one direct session
MaxProviderEvents == 3
\* events taken from the provider in one phone call
MaxText == 2
\* longest transcript accumulated between two flushes, both roles together,
\* in tokens

Registry == {"gemini", "openai", "elevenlabs"}

ProviderNames == {"openai", "backendX"}

StreamSids == {"", "MZ1"}

TextFrags == { <<"a">>, <<" ">> }

\* an arguments value that is not a mapping and not falsy, such as the list [1]
NotMapping == <<"[", "1", "]">>

\* the arguments of a tool call after `or {}`: the empty mapping, or a mapping
\* that gives the tool's parameter the value "2"
ToolArgs == { <<>>, <<"2">> }

\* the tool calls a phone call receives, as <<call id, arguments>>: call_3
\* names a tool that is not built in
ToolRequests ==
    { <<"call_1", <<>>>>, <<"call_1", NotMapping>>,
      <<"call_2", <<>>>>, <<"call_2", <<"2">>>>,
      <<"call_3", <<"2">>>> }

BuiltIn == {"get_current_time", "get_weather", "calculate"}

\* args.get(key, default)
ArgOr(args, default) == IF args = <<>> THEN default ELSE args[1]

\* the characters `calculate` lets through to eval
AllowedChars == {"0", "1", "2", "3", "4", "5", "6", "7", "8", "9",
                 "+", "-", "*", "/", "(", ")", ".", "%", " "}

\* the body of execute_tool raises: args.get on a value that is not a mapping,
\* or eval of an expression that is not one (the empty string)
ToolRaises(name, args) ==
    /\ name \in BuiltIn
    /\ \/ args = NotMapping
       \/ name = "calculate" /\ ArgOr(args, "") = ""

\* what the body of execute_tool returns when it does not raise
ToolValue(name, args) ==
    CASE name = "get_current_time" ->
            <<"time", IF ArgOr(args, "UTC") = "UTC" THEN "UTC" ELSE "utc fallback">>
      [] name = "get_weather" -> <<"weather", ArgOr(args, "")>>
      [] name = "calculate" ->
            IF ArgOr(args, "") \in AllowedChars
            THEN <<ArgOr(args, "")>>
            ELSE <<"Error: expression contains invalid characters">>
      [] OTHER -> <<"Unknown tool", name>>

\* faulty variant of Escapes: the exception of the body reaches the caller
EscapesUncaught(name, args) == ToolRaises(name, args)

\* whether a call of execute_tool raises into its caller: the whole body sits
\* in `try: ... except Exception as e: return f"Error executing ..."`
Escapes(name, args) == ToolRaises(name, args) /\ FALSE

\* server.execute_tool: dispatch on the name; every path returns a string
ExecuteTool(name, args) ==
    IF ToolRaises(name, args) THEN <<"Error executing", name>>
    ELSE ToolValue(name, args)

PumpNames == {"twilio", "provider", "browser", "audio", "text", "gemini"}

TelephonyPumps == {"twilio", "provider"}

DirectPumps == {"browser", "audio", "text", "gemini"}

\* a message written to the client transport
Out(k, sid) == [kind |-> k, streamSid |-> sid]

NoBatch == [pending |-> <<>>, responses |-> <<>>, active |-> FALSE]

\* observation of the last Interrupted event: the stream id and the transport
\* at that moment, and the first effects ("clear", "media", "sink") after it
NoIntr == [seen |-> FALSE, sid |-> "", wsOpen |-> FALSE, order |-> <<>>]

InitBridgeIdle ==
    /\ ws = "open"
    /\ session = "none"
    /\ provider_name = ""
    /\ pump = [p \in PumpNames |-> "idle"]
    /\ nClient = 0
    /\ nBackend = 0
    /\ stream_sid = ""
    /\ bridge_closed = FALSE
    /\ provPc = "recv"
    /\ current_caller_text = <<>>
    /\ current_agent_text = <<>>
    /\ audio_queue = <<>>
    /\ text_queue = <<>>
    /\ batch = NoBatch
    /\ sentAudio = <<>>
    /\ sentText = <<>>
    /\ lastOut = Out("none", "")
    /\ toolCalls = <<>>
    /\ toolSent = <<>>
    /\ lastFlush = <<>>
    /\ callObs = [start |-> FALSE, supplied |-> "", stop |-> FALSE, stopAudio |-> 0,
                  intr |-> NoIntr, callEnds |-> 0, run |-> FALSE]

\* ----------------------------------------------------- shared task steps
Running(p) == pump[p] = "running"

\* faulty variant of CancelPending: one pending task is not cancelled
CancelPendingExceptFirst(ps) ==
    LET first == CHOOSE q \in ps : TRUE
    IN  [p \in PumpNames |->
            IF p \in ps /\ p # first /\ pump[p] = "running" THEN "cancelling" ELSE pump[p]]

\* faulty variant of CancelPending: the sending pumps are left to drain
CancelPendingReceiversOnly(ps) ==
    [p \in PumpNames |->
        IF p \in ps /\ p \notin {"audio", "text"} /\ pump[p] = "running"
        THEN "cancelling" ELSE pump[p]]

\* asyncio.wait(FIRST_COMPLETED) has returned: `for t in pending: t.cancel()`
CancelPending(ps) ==
    [p \in PumpNames |-> IF p \in ps /\ pump[p] = "running" THEN "cancelling" ELSE pump[p]]

\* the task finishes, by return or by an exception caught in its body
Finish(p) == pump' = [pump EXCEPT ![p] = "done"]

\* the next pass of the event loop resumes every task cancel() was called on:
\* CancelledError is raised at the await the task is suspended in
PumpsCancelled ==
    /\ \E p \in PumpNames : pump[p] = "cancelling"
    /\ pump' = [p \in PumpNames |-> IF pump[p] = "cancelling" THEN "cancelled" ELSE pump[p]]
    /\ provPc' = IF pump["provider"] = "cancelling" THEN "recv" ELSE provPc
    /\ batch' = IF pump["gemini"] = "cancelling" THEN NoBatch ELSE batch
    /\ UNCHANGED <<variant, main, ws, session, provider_name, nClient, nBackend,
                   stream_sid, bridge_closed, current_caller_text, current_agent_text,
                   audio_queue, text_queue, bridgeObs>>
    /\ UNCHANGED <<adapterVars, pureVars, sess>>

\* the peer closes the client transport
ClientHangsUp ==
    /\ variant \in {"direct", "telephony"}
    /\ ws = "open"
    /\ main \in {"started", "wait"}
    /\ ws' = "gone"
    /\ UNCHANGED <<variant, main, session, provider_name, pump, nClient, nBackend,
                   telState, directState, bridgeObs>>
    /\ UNCHANGED <<adapterVars, pureVars, sess>>

\* the backend socket drops
BackendDrop ==
    /\ variant \in {"direct", "telephony"}
    /\ session = "open"
    /\ main = "wait"
    /\ session' = "dropped"
    /\ UNCHANGED <<variant, main, ws, provider_name, pump, nClient, nBackend,
                   telState, directState, bridgeObs>>
    /\ UNCHANGED <<adapterVars, pureVars, sess>>

\* a write to the client transport; it raises when the peer is gone
WsWrite(m) == lastOut' = IF ws = "open" THEN m ELSE lastOut

\* ------------------------------------- webhooks.twilio_media_stream
TelUnchangedByHandler ==
    UNCHANGED <<bridge_closed, provPc, current_caller_text, current_agent_text,
                directState, sentAudio, sentText, lastOut, toolCalls, toolSent,
                lastFlush>>

\* the first message ("connected"); receive_text or json.loads may raise
WhFirstMessage(ok) ==
    /\ variant = "telephony"
    /\ main = "first"
    /\ main' = IF ok THEN "start" ELSE "ended"
    /\ ws' = IF ok THEN ws ELSE "gone"
    /\ UNCHANGED <<variant, session, provider_name, pump, nClient, nBackend,
                   stream_sid, callObs>>
    /\ TelUnchangedByHandler
    /\ UNCHANGED <<adapterVars, pureVars, sess>>

\* faulty variant of WhStartMessage: the event of the second message is not
\* looked at
WhStartMessageUnchecked(isStart, sid, prov) ==
    /\ variant = "telephony"
    /\ main = "start"
    /\ main' = "persona"
    /\ provider_name' = prov
    /\ stream_sid' = sid
    /\ callObs' = [callObs EXCEPT !.start = @ \/ isStart, !.supplied = sid]
    /\ UNCHANGED <<variant, ws, session, pump, nClient, nBackend>>
    /\ TelUnchangedByHandler
    /\ UNCHANGED <<adapterVars, pureVars, sess>>

\* the second message must be `start`; it carries streamSid and customParameters
WhStartMessage(isStart, sid, prov) ==
    /\ variant = "telephony"
    /\ main = "start"
    /\ IF isStart
       THEN /\ main' = "persona"
            /\ provider_name' = prov
            /\ stream_sid' = sid
            /\ callObs' = [callObs EXCEPT !.start = TRUE, !.supplied = sid]
       ELSE /\ main' = "ended"
            /\ UNCHANGED <<provider_name, stream_sid, callObs>>
    /\ UNCHANGED <<variant, ws, session, pump, nClient, nBackend>>
    /\ TelUnchangedByHandler
    /\ UNCHANGED <<adapterVars, pureVars, sess>>

\* convex.query("personas:get"): without a persona the socket is closed
WhPersona(found) ==
    /\ variant = "telephony"
    /\ main = "persona"
    /\ main' = IF found THEN "provider" ELSE "ended"
    /\ ws' = IF found THEN ws ELSE "closed"
    /\ UNCHANGED <<variant, session, provider_name, pump, nClient, nBackend,
                   stream_sid, callObs>>
    /\ TelUnchangedByHandler
    /\ UNCHANGED <<adapterVars, pureVars, sess>>

\* providers.get_provider raises KeyError for a name not in the registry
Registered(name) == name \in Registry

WhGetProvider ==
    /\ variant = "telephony"
    /\ main = "provider"
    /\ IF Registered(provider_name)
       THEN main' = "run" /\ ws' = ws
       ELSE main' = "ended" /\ ws' = "closed"
    /\ UNCHANGED <<variant, session, provider_name, pump, nClient, nBackend,
                   stream_sid, callObs>>
    /\ TelUnchangedByHandler
    /\ UNCHANGED <<adapterVars, pureVars, sess>>

\* ------------------------------------------- TwilioAudioBridge.run
\* provider.connect / connect_ctx, then _run_bridge creates the two tasks;
\* a connect that raises goes to the `finally`
BridgeConnect(ok) ==
    /\ variant = "telephony"
    /\ main = "run"
    /\ IF ok
       THEN /\ session' = "open"
            /\ pump' = [p \in PumpNames |->
                          IF p \in TelephonyPumps THEN "running" ELSE pump[p]]
            /\ main' = "wait"
       ELSE /\ main' = "finally"
            /\ UNCHANGED <<session, pump>>
    /\ callObs' = [callObs EXCEPT !.run = TRUE]
    /\ UNCHANGED <<variant, ws, provider_name, nClient, nBackend, stream_sid>>
    /\ TelUnchangedByHandler
    /\ UNCHANGED <<adapterVars, pureVars, sess>>

\* _run_bridge: asyncio.wait returns when the first task is done
BridgeWaitReturns ==
    /\ variant = "telephony"
    /\ main = "wait"
    /\ \E p \in TelephonyPumps : pump[p] = "done"
    /\ pump' = CancelPending(TelephonyPumps)
    /\ main' = "closing"
    /\ UNCHANGED <<variant, ws, session, provider_name, nClient, nBackend,
                   stream_sid, callObs>>
    /\ TelUnchangedByHandler
    /\ UNCHANGED <<adapterVars, pureVars, sess>>

\* faulty variant of BridgeSessionClose: the session is left open
BridgeSessionCloseSkipped ==
    /\ variant = "telephony"
    /\ main = "closing"
    /\ session' = session
    /\ main' = "finally"
    /\ UNCHANGED <<variant, ws, provider_name, pump, nClient, nBackend,
                   stream_sid, callObs>>
    /\ TelUnchangedByHandler
    /\ UNCHANGED <<adapterVars, pureVars, sess>>

\* `finally: await self.session.close()` or the exit of connect_ctx
BridgeSessionClose ==
    /\ variant = "telephony"
    /\ main = "closing"
    /\ session' = "closed"
    /\ main' = "finally"
    /\ UNCHANGED <<variant, ws, provider_name, pump, nClient, nBackend,
                   stream_sid, callObs>>
    /\ TelUnchangedByHandler
    /\ UNCHANGED <<adapterVars, pureVars, sess>>

\* faulty variant of BridgeFinally: the transcript buffers are flushed to the
\* sink before on_call_end
BridgeFinallyWithFlush(raises) ==
    /\ variant = "telephony"
    /\ main = "finally"
    /\ bridge_closed' = TRUE
    /\ raises \in BOOLEAN
    /\ callObs' = [callObs EXCEPT !.callEnds = Cap(@)]
    /\ main' = "ended"
    /\ lastFlush' = [i \in 1..(IF current_caller_text # <<>> THEN 1 ELSE 0) |->
                        [role |-> "caller", text |-> current_caller_text,
                         raised |-> FALSE]]
                    \o [i \in 1..(IF current_agent_text # <<>> THEN 1 ELSE 0) |->
                           [role |-> "agent", text |-> current_agent_text,
                            raised |-> FALSE]]
    /\ current_caller_text' = <<>>
    /\ current_agent_text' = <<>>
    /\ UNCHANGED <<variant, ws, session, provider_name, pump, nClient, nBackend,
                   stream_sid, provPc, directState, sentAudio, sentText, lastOut,
                   toolCalls, toolSent>>
    /\ UNCHANGED <<adapterVars, pureVars, sess>>

\* faulty variant of BridgeFinally: on_call_end is part of the block that
\* closes the session and is skipped when the connect failed
BridgeFinallyAfterSessionOnly(raises) ==
    /\ variant = "telephony"
    /\ main = "finally"
    /\ bridge_closed' = TRUE
    /\ raises \in BOOLEAN
    /\ callObs' = IF session = "none" THEN callObs
                  ELSE [callObs EXCEPT !.callEnds = Cap(@)]
    /\ main' = "ended"
    /\ UNCHANGED <<variant, ws, session, provider_name, pump, nClient, nBackend,
                   stream_sid, provPc, current_caller_text, current_agent_text,
                   directState, sentAudio, sentText, lastOut, toolCalls, toolSent,
                   lastFlush>>
    /\ UNCHANGED <<adapterVars, pureVars, sess>>

\* `finally: self._closed = True; await self.on_call_end()`, whose exception
\* is logged
BridgeFinally(raises) ==
    /\ variant = "telephony"
    /\ main = "finally"
    /\ bridge_closed' = TRUE
    /\ raises \in BOOLEAN
    /\ callObs' = [callObs EXCEPT !.callEnds = Cap(@)]
    /\ main' = "ended"
    /\ UNCHANGED <<variant, ws, session, provider_name, pump, nClient, nBackend,
                   stream_sid, provPc, current_caller_text, current_agent_text,
                   directState, sentAudio, sentText, lastOut, toolCalls, toolSent,
                   lastFlush>>
    /\ UNCHANGED <<adapterVars, pureVars, sess>>

\* ------------------------------ TwilioAudioBridge._recv_from_twilio
\* twilio_to_provider_audio(mulaw, 16000): one mulaw byte is one 8 kHz sample,
\* resampled to two 16 kHz samples of two bytes
TwilioToProviderLen(n) == 4 * n

TwilioReading ==
    /\ variant = "telephony"
    /\ Running("twilio")
    /\ ~bridge_closed
    /\ nClient < MaxClientFrames

TwUnchanged ==
    UNCHANGED <<variant, main, session, provider_name, nBackend, bridge_closed,
                provPc, current_caller_text, current_agent_text, directState,
                sentText, lastOut, toolCalls, toolSent, lastFlush>>

\* faulty variant of TwRecvStart: the stream id of a later `start` is not taken
TwRecvStartIgnored(sid) ==
    /\ TwilioReading
    /\ ws = "open"
    /\ nClient' = nClient + 1
    /\ stream_sid' = stream_sid
    /\ callObs' = [callObs EXCEPT !.start = TRUE, !.supplied = sid]
    /\ UNCHANGED <<ws, pump, sentAudio>>
    /\ TwUnchanged
    /\ UNCHANGED <<adapterVars, pureVars, sess>>

\* event == "start"
TwRecvStart(sid) ==
    /\ TwilioReading
    /\ ws = "open"
    /\ nClient' = nClient + 1
    /\ stream_sid' = sid
    /\ callObs' = [callObs EXCEPT !.start = TRUE, !.supplied = sid]
    /\ UNCHANGED <<ws, pump, sentAudio>>
    /\ TwUnchanged
    /\ UNCHANGED <<adapterVars, pureVars, sess>>

\* event == "media": the payload is decoded, converted and passed to send_audio,
\* which raises when the backend socket is gone
TwRecvMedia(payload) ==
    /\ TwilioReading
    /\ ws = "open"
    /\ nClient' = nClient + 1
    /\ IF payload = <<>> \/ session = "none"
       THEN UNCHANGED <<pump, sentAudio>>
       ELSE IF ~B64Valid(payload) \/ session = "dropped"
       THEN Finish("twilio") /\ UNCHANGED sentAudio
       ELSE /\ sentAudio' = Append(sentAudio, TwilioToProviderLen(B64Decode(payload)))
            /\ UNCHANGED pump
    /\ UNCHANGED <<ws, stream_sid, callObs>>
    /\ TwUnchanged
    /\ UNCHANGED <<adapterVars, pureVars, sess>>

\* event == "stop": break
TwRecvStop ==
    /\ TwilioReading
    /\ ws = "open"
    /\ nClient' = nClient + 1
    /\ Finish("twilio")
    /\ callObs' = [callObs EXCEPT !.stop = TRUE, !.stopAudio = Len(sentAudio)]
    /\ UNCHANGED <<ws, stream_sid, sentAudio>>
    /\ TwUnchanged
    /\ UNCHANGED <<adapterVars, pureVars, sess>>

\* event == "mark", or any other event name
TwRecvMark ==
    /\ TwilioReading
    /\ ws = "open"
    /\ nClient' = nClient + 1
    /\ UNCHANGED <<ws, pump, stream_sid, sentAudio, callObs>>
    /\ TwUnchanged
    /\ UNCHANGED <<adapterVars, pureVars, sess>>

\* json.loads raises, or msg.get raises on JSON that is not an object:
\* `except Exception` ends the task
TwRecvUnparseable ==
    /\ TwilioReading
    /\ ws = "open"
    /\ nClient' = nClient + 1
    /\ Finish("twilio")
    /\ UNCHANGED <<ws, stream_sid, sentAudio, callObs>>
    /\ TwUnchanged
    /\ UNCHANGED <<adapterVars, pureVars, sess>>

\* receive_text raises WebSocketDisconnect
TwRecvDisconnect ==
    /\ variant = "telephony"
    /\ Running("twilio")
    /\ ws = "gone"
    /\ Finish("twilio")
    /\ UNCHANGED <<ws, nClient, stream_sid, sentAudio, callObs>>
    /\ TwUnchanged
    /\ UNCHANGED <<adapterVars, pureVars, sess>>

\* ---------------------------- TwilioAudioBridge._recv_from_provider
ProviderReceiving ==
    /\ variant = "telephony"
    /\ Running("provider")
    /\ provPc = "recv"
    /\ session = "open"
    /\ ~bridge_closed
    /\ nBackend < MaxProviderEvents

PvUnchanged ==
    UNCHANGED <<variant, main, ws, session, provider_name, nClient, stream_sid,
                bridge_closed, directState, sentAudio, sentText>>

\* faulty variant of CanAddress: the stream id is not looked at
CanAddressWithoutSid == ~bridge_closed

\* `if not self.stream_sid or self._closed: return`
CanAddress == stream_sid # "" /\ ~bridge_closed

\* toolCalls, toolSent, lastFlush, lastOut and callObs.intr describe the
\* provider event handled last: a handler starts from the empty observation
NoIntrObs == [callObs EXCEPT !.intr = NoIntr]

Noted(o, e) == IF Len(o) < 2 THEN Append(o, e) ELSE o

NoteEffects(es) ==
    callObs' = IF ~callObs.intr.seen THEN callObs
               ELSE [callObs EXCEPT !.intr.order =
                        IF Len(es) = 0 THEN @
                        ELSE IF Len(es) = 1 THEN Noted(@, es[1])
                        ELSE Noted(Noted(@, es[1]), es[2])]

\* faulty variant of SinkCalls: the agent text is delivered before the caller text
SinkCallsAgentFirst(caller, agent, raises) ==
    (IF Strip(agent) # <<>>
     THEN <<[role |-> "agent", text |-> Strip(agent),
             raised |-> "agent" \in raises]>>
     ELSE <<>>)
    \o
    (IF Strip(caller) # <<>>
     THEN <<[role |-> "caller", text |-> Strip(caller),
             raised |-> "caller" \in raises]>>
     ELSE <<>>)

\* faulty variant of SinkCalls: the first call that raises ends the flush
SinkCallsUntilFailure(caller, agent, raises) ==
    (IF Strip(caller) # <<>>
     THEN <<[role |-> "caller", text |-> Strip(caller),
             raised |-> "caller" \in raises]>>
     ELSE <<>>)
    \o
    (IF Strip(agent) # <<>> /\ ~(Strip(caller) # <<>> /\ "caller" \in raises)
     THEN <<[role |-> "agent", text |-> Strip(agent),
             raised |-> "agent" \in raises]>>
     ELSE <<>>)

\* the roles whose on_transcript call raises during one flush
SinkFailures == {{}, {"caller"}, {"caller", "agent"}}

\* _flush_transcripts: the sink calls it makes, each in its own try/except
SinkCalls(caller, agent, raises) ==
    (IF Strip(caller) # <<>>
     THEN <<[role |-> "caller", text |-> Strip(caller),
             raised |-> "caller" \in raises]>>
     ELSE <<>>)
    \o
    (IF Strip(agent) # <<>>
     THEN <<[role |-> "agent", text |-> Strip(agent),
             raised |-> "agent" \in raises]>>
     ELSE <<>>)

SinkEffects(calls) == [i \in 1..Len(calls) |-> "sink"]

\* EventType.AUDIO: _send_audio_to_twilio
PvAudio ==
    /\ ProviderReceiving
    /\ nBackend' = nBackend + 1
    /\ lastOut' = IF CanAddress /\ ws = "open"
                  THEN Out("media", stream_sid) ELSE Out("none", "")
    /\ toolCalls' = <<>>
    /\ toolSent' = <<>>
    /\ lastFlush' = <<>>
    /\ callObs' = NoIntrObs
    /\ UNCHANGED <<pump, provPc, current_caller_text, current_agent_text>>
    /\ PvUnchanged
    /\ UNCHANGED <<adapterVars, pureVars, sess>>

\* EventType.TRANSCRIPT_USER
PvTranscriptUser(t) ==
    /\ ProviderReceiving
    /\ Len(current_caller_text) + Len(current_agent_text) + Len(t) <= MaxText
    /\ nBackend' = nBackend + 1
    /\ current_caller_text' = current_caller_text \o t
    /\ lastOut' = Out("none", "")
    /\ toolCalls' = <<>>
    /\ toolSent' = <<>>
    /\ lastFlush' = <<>>
    /\ callObs' = NoIntrObs
    /\ UNCHANGED <<pump, provPc, current_agent_text>>
    /\ PvUnchanged
    /\ UNCHANGED <<adapterVars, pureVars, sess>>

\* EventType.TRANSCRIPT_AGENT
PvTranscriptAgent(t) ==
    /\ ProviderReceiving
    /\ Len(current_caller_text) + Len(current_agent_text) + Len(t) <= MaxText
    /\ nBackend' = nBackend + 1
    /\ current_agent_text' = current_agent_text \o t
    /\ lastOut' = Out("none", "")
    /\ toolCalls' = <<>>
    /\ toolSent' = <<>>
    /\ lastFlush' = <<>>
    /\ callObs' = NoIntrObs
    /\ UNCHANGED <<pump, provPc, current_caller_text>>
    /\ PvUnchanged
    /\ UNCHANGED <<adapterVars, pureVars, sess>>

\* faulty variant of ToolResult: every result goes out under the same id
ToolResultFirstId(ev, result) ==
    [tool_id |-> "call_1", name |-> ev.tool_name, result |-> result]

\* the result message for a tool call: send_tool_result(tool_id, name, result)
ToolResult(ev, result) ==
    [tool_id |-> ev.tool_id, name |-> ev.tool_name, result |-> result]

Executed(ev, result) ==
    [tool_id |-> ev.tool_id, tool_name |-> ev.tool_name, tool_args |-> ev.tool_args,
     result |-> result]

\* EventType.TOOL_CALL: execute_tool, then send_tool_result; an exception of
\* execute_tool would reach `except Exception` and end the task
PvToolCall(c, args) ==
    /\ ProviderReceiving
    /\ nBackend' = nBackend + 1
    /\ LET ev == ToolCallEv(NameOf(c), args, c)
           result == ExecuteTool(ev.tool_name, ev.tool_args)
       IN  IF Escapes(ev.tool_name, ev.tool_args)
           THEN /\ toolCalls' = <<>>
                /\ toolSent' = <<>>
                /\ Finish("provider")
           ELSE /\ toolCalls' = <<Executed(ev, result)>>
                /\ toolSent' = <<ToolResult(ev, result)>>
                /\ UNCHANGED pump
    /\ lastOut' = Out("none", "")
    /\ lastFlush' = <<>>
    /\ callObs' = NoIntrObs
    /\ UNCHANGED <<provPc, current_caller_text, current_agent_text>>
    /\ PvUnchanged
    /\ UNCHANGED <<adapterVars, pureVars, sess>>

\* EventType.TURN_COMPLETE: _flush_transcripts
PvTurnComplete(raises) ==
    /\ ProviderReceiving
    /\ nBackend' = nBackend + 1
    /\ lastFlush' = SinkCalls(current_caller_text, current_agent_text, raises)
    /\ current_caller_text' = <<>>
    /\ current_agent_text' = <<>>
    /\ lastOut' = Out("none", "")
    /\ toolCalls' = <<>>
    /\ toolSent' = <<>>
    /\ callObs' = NoIntrObs
    /\ UNCHANGED <<pump, provPc>>
    /\ PvUnchanged
    /\ UNCHANGED <<adapterVars, pureVars, sess>>

\* EventType.INTERRUPTED, first await: _clear_twilio_audio
PvInterrupted ==
    /\ ProviderReceiving
    /\ nBackend' = nBackend + 1
    /\ provPc' = "flush"
    /\ lastOut' = IF CanAddress /\ ws = "open"
                  THEN Out("clear", stream_sid) ELSE Out("none", "")
    /\ callObs' = [callObs EXCEPT !.intr =
                      [seen |-> TRUE, sid |-> stream_sid, wsOpen |-> ws = "open",
                       order |-> IF CanAddress /\ ws = "open"
                                 THEN <<"clear">> ELSE <<>>]]
    /\ toolCalls' = <<>>
    /\ toolSent' = <<>>
    /\ lastFlush' = <<>>
    /\ UNCHANGED <<pump, current_caller_text, current_agent_text>>
    /\ PvUnchanged
    /\ UNCHANGED <<adapterVars, pureVars, sess>>

\* EventType.INTERRUPTED, second await: _flush_transcripts
PvInterruptedFlush(raises) ==
    /\ variant = "telephony"
    /\ Running("provider")
    /\ provPc = "flush"
    /\ provPc' = "recv"
    /\ lastFlush' = SinkCalls(current_caller_text, current_agent_text, raises)
    /\ NoteEffects(SinkEffects(lastFlush'))
    /\ current_caller_text' = <<>>
    /\ current_agent_text' = <<>>
    /\ UNCHANGED <<pump, nBackend, lastOut, toolCalls, toolSent>>
    /\ PvUnchanged
    /\ UNCHANGED <<adapterVars, pureVars, sess>>

\* EventType.ERROR: logged
PvError ==
    /\ ProviderReceiving
    /\ nBackend' = nBackend + 1
    /\ lastOut' = Out("none", "")
    /\ toolCalls' = <<>>
    /\ toolSent' = <<>>
    /\ lastFlush' = <<>>
    /\ callObs' = NoIntrObs
    /\ UNCHANGED <<pump, provPc, current_caller_text, current_agent_text>>
    /\ PvUnchanged
    /\ UNCHANGED <<adapterVars, pureVars, sess>>

\* session.receive() is over after the socket dropped (or raises, which the
\* task catches): the events it still yields are handled, then the task returns
PvStreamEnds ==
    /\ variant = "telephony"
    /\ Running("provider")
    /\ provPc = "recv"
    /\ session = "dropped"
    /\ Finish("provider")
    /\ UNCHANGED <<nBackend, provPc, current_caller_text, current_agent_text, lastOut,
                   toolCalls, toolSent, lastFlush, callObs>>
    /\ PvUnchanged
    /\ UNCHANGED <<adapterVars, pureVars, sess>>

TelephonyNext ==
    \/ \E ok \in BOOLEAN : WhFirstMessage(ok)
    \/ \E isStart \in BOOLEAN, sid \in StreamSids, prov \in ProviderNames :
          WhStartMessage(isStart, sid, prov)
    \/ \E found \in BOOLEAN : WhPersona(found)
    \/ WhGetProvider
    \/ \E ok \in BOOLEAN : BridgeConnect(ok)
    \/ BridgeWaitReturns
    \/ BridgeSessionClose
    \/ \E raises \in BOOLEAN : BridgeFinally(raises)
    \/ \E sid \in StreamSids : TwRecvStart(sid)
    \/ \E payload \in Payloads : TwRecvMedia(payload)
    \/ TwRecvStop
    \/ TwRecvMark
    \/ TwRecvUnparseable
    \/ TwRecvDisconnect
    \/ PvAudio
    \/ \E t \in TextFrags : PvTranscriptUser(t)
    \/ \E t \in TextFrags : PvTranscriptAgent(t)
    \/ \E req \in ToolRequests : PvToolCall(req[1], req[2])
    \/ \E raises \in SinkFailures : PvTurnComplete(raises)
    \/ PvInterrupted
    \/ \E raises \in SinkFailures : PvInterruptedFlush(raises)
    \/ PvError
    \/ PvStreamEnds

\* --------------------------------------------- server.websocket_endpoint
DirectUnchangedByHandler ==
    UNCHANGED <<nClient, nBackend, telState, directState, sentAudio, sentText,
                toolCalls, toolSent, lastFlush, callObs>>

\* `raw = await ws.receive_text(); user_config = json.loads(raw)` stands outside
\* the try: an exception leaves the handler.  The fields read from user_config
\* are voice, language, systemPrompt and three flags; a "provider" field the
\* client sends is never read.
DirectConfig(ok, prov) ==
    /\ variant = "direct"
    /\ main = "config"
    /\ IF ok
       THEN main' = "connect" /\ provider_name' = prov /\ ws' = ws
       ELSE main' = "aborted" /\ provider_name' = provider_name /\ ws' = "gone"
    /\ UNCHANGED <<variant, session, pump, lastOut>>
    /\ DirectUnchangedByHandler
    /\ UNCHANGED <<adapterVars, pureVars, sess>>

\* `async with client.aio.live.connect(model=MODEL, config=config) as session`;
\* when it raises, `except Exception` sends {"type": "error"}
DirectConnect(ok) ==
    /\ variant = "direct"
    /\ main = "connect"
    /\ IF ok
       THEN session' = "open" /\ main' = "started" /\ lastOut' = lastOut
       ELSE session' = session /\ main' = "close" /\ WsWrite(Out("error", ""))
    /\ UNCHANGED <<variant, ws, provider_name, pump>>
    /\ DirectUnchangedByHandler
    /\ UNCHANGED <<adapterVars, pureVars, sess>>

\* `await ws.send_json({"type": "session_started"})`, then the four tasks are
\* created; a send that raises leaves the `async with` and reaches the except.
\* user_config is not read after the connect: the model forgets it here.
DirectSessionStarted ==
    /\ variant = "direct"
    /\ main = "started"
    /\ provider_name' = ""
    /\ IF ws = "open"
       THEN /\ lastOut' = Out("session_started", "")
            /\ pump' = [p \in PumpNames |->
                          IF p \in DirectPumps THEN "running" ELSE pump[p]]
            /\ main' = "wait"
            /\ session' = session
       ELSE /\ session' = "closed"
            /\ main' = "close"
            /\ UNCHANGED <<lastOut, pump>>
    /\ UNCHANGED <<variant, ws>>
    /\ DirectUnchangedByHandler
    /\ UNCHANGED <<adapterVars, pureVars, sess>>

\* asyncio.wait(tasks, FIRST_COMPLETED) returns; `for t in pending: t.cancel()`
DirectWaitReturns ==
    /\ variant = "direct"
    /\ main = "wait"
    /\ \E p \in DirectPumps : pump[p] = "done"
    /\ pump' = CancelPending(DirectPumps)
    /\ main' = "exit"
    /\ UNCHANGED <<variant, ws, session, provider_name, lastOut>>
    /\ DirectUnchangedByHandler
    /\ UNCHANGED <<adapterVars, pureVars, sess>>

\* the exit of the `async with`: the backend session is closed
DirectSessionExit ==
    /\ variant = "direct"
    /\ main = "exit"
    /\ session' = "closed"
    /\ main' = "close"
    /\ UNCHANGED <<variant, ws, provider_name, pump, lastOut>>
    /\ DirectUnchangedByHandler
    /\ UNCHANGED <<adapterVars, pureVars, sess>>

\* `try: await ws.close()`
DirectWsClose ==
    /\ variant = "direct"
    /\ main = "close"
    /\ ws' = "closed"
    /\ main' = "ended"
    /\ UNCHANGED <<variant, session, provider_name, pump, lastOut>>
    /\ DirectUnchangedByHandler
    /\ UNCHANGED <<adapterVars, pureVars, sess>>

\* ------------------------------------------------- recv_from_browser
BrowserReading ==
    /\ variant = "direct"
    /\ Running("browser")
    /\ ws = "open"
    /\ nClient < MaxClientFrames

BrowserUnchanged ==
    UNCHANGED <<variant, main, ws, session, provider_name, nBackend, telState,
                batch, bridgeObs>>

\* typed: {"type": "text", "text": ...}; notext: {"type": "text"} without a
\* text member; plain: not JSON, or an object of another type; nonobject:
\* valid JSON that is not an object
TextKinds == {"typed", "notext", "plain", "nonobject"}

\* what a text frame puts on text_queue: parsed["text"] of a {"type": "text"}
\* object, the frame itself otherwise; n numbers the items of a queue
Queued(kind, n) == [n |-> n, part |-> IF kind = "typed" THEN "text" ELSE "frame"]

\* msg.get("bytes"): audio_queue.put
BrowserBytes ==
    /\ BrowserReading
    /\ nClient' = nClient + 1
    /\ audio_queue' = Append(audio_queue, Len(sentAudio) + Len(audio_queue) + 1)
    /\ UNCHANGED <<pump, text_queue>>
    /\ BrowserUnchanged
    /\ UNCHANGED <<adapterVars, pureVars, sess>>

\* msg.get("text"): json.loads, then parsed.get("type"); JSONDecodeError and
\* KeyError are passed over, the AttributeError of JSON that is not an object
\* reaches `except Exception` and ends the task
BrowserText(kind) ==
    /\ BrowserReading
    /\ nClient' = nClient + 1
    /\ IF kind = "nonobject"
       THEN Finish("browser") /\ UNCHANGED text_queue
       ELSE /\ text_queue' =
                  Append(text_queue, Queued(kind, Len(sentText) + Len(text_queue) + 1))
            /\ UNCHANGED pump
    /\ UNCHANGED audio_queue
    /\ BrowserUnchanged
    /\ UNCHANGED <<adapterVars, pureVars, sess>>

\* a frame whose payload is empty (b"" or ""): msg.get("bytes") and
\* msg.get("text") are both falsy and nothing is queued
BrowserEmpty ==
    /\ BrowserReading
    /\ nClient' = nClient + 1
    /\ UNCHANGED <<pump, audio_queue, text_queue>>
    /\ BrowserUnchanged
    /\ UNCHANGED <<adapterVars, pureVars, sess>>

\* the disconnect message has neither bytes nor text; the next ws.receive()
\* raises and the task ends
BrowserDisconnect ==
    /\ variant = "direct"
    /\ Running("browser")
    /\ ws = "gone"
    /\ Finish("browser")
    /\ UNCHANGED <<nClient, audio_queue, text_queue>>
    /\ BrowserUnchanged
    /\ UNCHANGED <<adapterVars, pureVars, sess>>

\* ------------------------------------------- send_audio / send_text
\* faulty variant of AudioSend: the newest chunk of the queue is sent first
AudioSendNewestFirst ==
    /\ variant = "direct"
    /\ Running("audio")
    /\ audio_queue # <<>>
    /\ audio_queue' = SubSeq(audio_queue, 1, Len(audio_queue) - 1)
    /\ IF session = "open"
       THEN /\ sentAudio' = Append(sentAudio, audio_queue[Len(audio_queue)])
            /\ UNCHANGED pump
       ELSE Finish("audio") /\ UNCHANGED sentAudio
    /\ UNCHANGED <<variant, main, ws, session, provider_name, nClient, nBackend,
                   telState, text_queue, batch, sentText, lastOut, toolCalls,
                   toolSent, lastFlush, callObs>>
    /\ UNCHANGED <<adapterVars, pureVars, sess>>

\* `chunk = await audio_queue.get(); await session.send_realtime_input(...)`;
\* the send raises when the backend socket is gone
AudioSend ==
    /\ variant = "direct"
    /\ Running("audio")
    /\ audio_queue # <<>>
    /\ audio_queue' = Tail(audio_queue)
    /\ IF session = "open"
       THEN sentAudio' = Append(sentAudio, Head(audio_queue)) /\ UNCHANGED pump
       ELSE Finish("audio") /\ UNCHANGED sentAudio
    /\ UNCHANGED <<variant, main, ws, session, provider_name, nClient, nBackend,
                   telState, text_queue, batch, sentText, lastOut, toolCalls,
                   toolSent, lastFlush, callObs>>
    /\ UNCHANGED <<adapterVars, pureVars, sess>>

\* `text = await text_queue.get(); await session.send(input=text, end_of_turn=True)`
TextSend ==
    /\ variant = "direct"
    /\ Running("text")
    /\ text_queue # <<>>
    /\ text_queue' = Tail(text_queue)
    /\ IF session = "open"
       THEN sentText' = Append(sentText, Head(text_queue)) /\ UNCHANGED pump
       ELSE Finish("text") /\ UNCHANGED sentText
    /\ UNCHANGED <<variant, main, ws, session, provider_name, nClient, nBackend,
                   telState, audio_queue, batch, sentAudio, lastOut, toolCalls,
                   toolSent, lastFlush, callObs>>
    /\ UNCHANGED <<adapterVars, pureVars, sess>>

\* --------------------------------------------------- recv_from_gemini
GeminiReceiving ==
    /\ variant = "direct"
    /\ Running("gemini")
    /\ ~batch.active
    /\ session = "open"
    /\ nBackend < MaxBackendEvents

GemUnchanged ==
    UNCHANGED <<variant, main, ws, session, provider_name, nClient, telState,
                audio_queue, text_queue, sentAudio, sentText, lastFlush, callObs>>

ContentKinds == {"audio", "user", "agent", "turn_complete", "interrupted", "none"}

\* the message a server_content field is forwarded as: inline data goes out as
\* bytes, input_transcription as "user", output_transcription as "gemini"
ClientMessage(k) ==
    CASE k = "audio" -> Out("bytes", "")
      [] k = "user" -> Out("user", "")
      [] k = "agent" -> Out("gemini", "")
      [] OTHER -> Out(k, "")

\* a response without tool_call: server_content is forwarded, `if not sc: continue`
GemContent(k) ==
    /\ GeminiReceiving
    /\ nBackend' = nBackend + 1
    /\ IF k = "none" THEN UNCHANGED <<pump, lastOut>>
       ELSE IF ws = "open" THEN lastOut' = ClientMessage(k) /\ UNCHANGED pump
       ELSE Finish("gemini") /\ UNCHANGED lastOut
    /\ toolCalls' = <<>>
    /\ toolSent' = <<>>
    /\ UNCHANGED batch
    /\ GemUnchanged
    /\ UNCHANGED <<adapterVars, pureVars, sess>>

Batches == { <<"call_1">>, <<"call_2", "call_1">> }

\* resp.tool_call: `function_responses = []`, then the loop over function_calls
GemToolCall(calls, args) ==
    /\ GeminiReceiving
    /\ nBackend' = nBackend + 1
    /\ batch' = [pending |-> [i \in 1..Len(calls) |->
                                 ToolCallEv(NameOf(calls[i]), args, calls[i])],
                 responses |-> <<>>,
                 active |-> TRUE]
    /\ toolCalls' = <<>>
    /\ toolSent' = <<>>
    /\ UNCHANGED <<pump, lastOut>>
    /\ GemUnchanged
    /\ UNCHANGED <<adapterVars, pureVars, sess>>

\* faulty variant of GemToolStep: the call is not forwarded to the client
GemToolStepNotForwarded ==
    /\ variant = "direct"
    /\ Running("gemini")
    /\ batch.active
    /\ batch.pending # <<>>
    /\ LET ev == Head(batch.pending)
           result == ExecuteTool(ev.tool_name, ev.tool_args)
       IN  /\ toolCalls' = Append(toolCalls, Executed(ev, result))
           /\ batch' = [batch EXCEPT
                           !.pending = Tail(@),
                           !.responses = Append(@, ToolResult(ev, result))]
    /\ UNCHANGED <<pump, lastOut, nBackend, toolSent>>
    /\ GemUnchanged
    /\ UNCHANGED <<adapterVars, pureVars, sess>>

\* one iteration: execute_tool, function_responses.append, ws.send_json; a send
\* that raises ends the task before send_tool_response
GemToolStep ==
    /\ variant = "direct"
    /\ Running("gemini")
    /\ batch.active
    /\ batch.pending # <<>>
    /\ LET ev == Head(batch.pending)
           result == ExecuteTool(ev.tool_name, ev.tool_args)
       IN  IF Escapes(ev.tool_name, ev.tool_args)
           THEN /\ Finish("gemini")
                /\ batch' = NoBatch
                /\ UNCHANGED <<lastOut, toolCalls>>
           ELSE /\ toolCalls' = Append(toolCalls, Executed(ev, result))
                /\ IF ws = "open"
                   THEN /\ lastOut' = Out("tool_call", "")
                        /\ batch' = [batch EXCEPT
                                        !.pending = Tail(@),
                                        !.responses = Append(@, ToolResult(ev, result))]
                        /\ UNCHANGED pump
                   ELSE /\ Finish("gemini")
                        /\ batch' = NoBatch
                        /\ UNCHANGED lastOut
    /\ UNCHANGED <<nBackend, toolSent>>
    /\ GemUnchanged
    /\ UNCHANGED <<adapterVars, pureVars, sess>>

\* `await session.send_tool_response(function_responses=function_responses)`
GemToolSend ==
    /\ variant = "direct"
    /\ Running("gemini")
    /\ batch.active
    /\ batch.pending = <<>>
    /\ batch' = NoBatch
    /\ IF session = "open"
       THEN toolSent' = batch.responses /\ UNCHANGED pump
       ELSE Finish("gemini") /\ UNCHANGED toolSent
    /\ UNCHANGED <<nBackend, lastOut, toolCalls>>
    /\ GemUnchanged
    /\ UNCHANGED <<adapterVars, pureVars, sess>>

\* session.receive() raises after the socket dropped: `except Exception`
GemStreamRaises ==
    /\ variant = "direct"
    /\ Running("gemini")
    /\ ~batch.active
    /\ session = "dropped"
    /\ Finish("gemini")
    /\ UNCHANGED <<nBackend, batch, lastOut, toolCalls, toolSent>>
    /\ GemUnchanged
    /\ UNCHANGED <<adapterVars, pureVars, sess>>

DirectNext ==
    \/ \E ok \in BOOLEAN, prov \in ProviderNames : DirectConfig(ok, prov)
    \/ \E ok \in BOOLEAN : DirectConnect(ok)
    \/ DirectSessionStarted
    \/ DirectWaitReturns
    \/ DirectSessionExit
    \/ DirectWsClose
    \/ BrowserBytes
    \/ \E kind \in TextKinds : BrowserText(kind)
    \/ BrowserEmpty
    \/ BrowserDisconnect
    \/ AudioSend
    \/ TextSend
    \/ \E k \in ContentKinds : GemContent(k)
    \/ \E calls \in Batches, args \in ToolArgs : GemToolCall(calls, args)
    \/ GemToolStep
    \/ GemToolSend
    \/ GemStreamRaises

\* ========================================================== audio codec
\* twilio_integration/audio.py and the resampling helper of openai_rt.py.
\* A buffer is a sequence of bytes (0..255).
MULAW_BIAS == 132

MULAW_CLIP == 32635

MaxBytes == 6
\* longest audio buffer drawn, in bytes

Buffers == UNION { [1..n -> {0, 127, 255}] : n \in 0..MaxBytes }

Rates == {8000, 16000, 24000}

Int16 == (-32768)..32767

\* struct format "<h": two bytes, little-endian, two's complement
UnpackInt16(lo, hi) ==
    LET u == lo + (256 * hi) IN IF u >= 32768 THEN u - 65536 ELSE u

PackInt16(x) ==
    LET u == IF x < 0 THEN x + 65536 ELSE x IN <<u % 256, u \div 256>>

PackSamples(xs) ==
    [j \in 1..(2 * Len(xs)) |-> PackInt16(xs[(j + 1) \div 2])[2 - (j % 2)]]

UnpackSamples(data, n) ==
    [i \in 1..n |-> UnpackInt16(data[(2 * i) - 1], data[2 * i])]

\* the segment search of _init_tables: bits 14 down to 7, exponent 7 down to
\* 0, and 0 when no bit is set; `sample & mask` for a mask that is a power of
\* two is the parity of sample \div mask
RECURSIVE Segment(_, _, _)
Segment(sample, exponent, mask) ==
    IF exponent < 0 THEN 0
    ELSE IF (sample \div mask) % 2 = 1 THEN exponent
    ELSE Segment(sample, exponent - 1, mask \div 2)

\* _mulaw_encode_table[x + 32768]
MulawEncode(x) ==
    LET sign == IF x < 0 THEN 128 ELSE 0
        mag == IF x < 0 THEN -x ELSE x
        sample == (IF mag > MULAW_CLIP THEN MULAW_CLIP ELSE mag) + MULAW_BIAS
        exponent == Segment(sample, 7, 16384)
        mantissa == (sample \div (2 ^ (exponent + 3))) % 16
    IN  255 - (sign + (16 * exponent) + mantissa)

\* faulty variant of MulawDecode: the bias is not taken off again
MulawDecodeBiased(i) ==
    LET b == 255 - i
        sample == (((8 * (b % 16)) + MULAW_BIAS) * (2 ^ ((b \div 16) % 8)))
    IN  IF b \div 128 = 1 THEN -sample ELSE sample

\* _mulaw_decode_table[i]
MulawDecode(i) ==
    LET b == 255 - i
        exponent == (b \div 16) % 8
        mantissa == b % 16
        sample == (((8 * mantissa) + MULAW_BIAS) * (2 ^ exponent)) - MULAW_BIAS
    IN  IF b \div 128 = 1 THEN -sample ELSE sample

mulaw_to_pcm16(mulaw_data) ==
    PackSamples([i \in 1..Len(mulaw_data) |-> MulawDecode(mulaw_data[i])])

pcm16_to_mulaw(pcm_data) ==
    [i \in 1..(Len(pcm_data) \div 2) |->
        MulawEncode(UnpackInt16(pcm_data[(2 * i) - 1], pcm_data[2 * i]))]

\* int(max(-32768, min(32767, num / den))) for den > 0; int() truncates
\* towards zero
ClampInt(num, den) ==
    IF num > 32767 * den THEN 32767
    ELSE IF num < (-32768) * den THEN -32768
    ELSE IF num >= 0 THEN num \div den
    ELSE -((-num) \div den)

\* faulty variant of OutLen: the rate ratio is rounded before it is applied
OutLenIntegerRatio(n_samples, from_rate, to_rate) ==
    n_samples * (to_rate \div from_rate)

\* ratio = from_rate / to_rate; out_len = int(n_samples / ratio).  For the
\* rates drawn the floating-point quotient has the integer part of the exact
\* one.
OutLen(n_samples, from_rate, to_rate) == (n_samples * to_rate) \div from_rate

\* the output samples of resample_pcm16: output i (from 0) lies at source
\* position i * ratio = idx + frac, with frac = r / to_rate
Interpolate(samples, n_samples, from_rate, to_rate) ==
    [k \in 1..OutLen(n_samples, from_rate, to_rate) |->
        LET idx == ((k - 1) * from_rate) \div to_rate
            r == ((k - 1) * from_rate) % to_rate
        IN  IF idx + 1 < n_samples
            THEN ClampInt((samples[idx + 1] * (to_rate - r))
                              + (samples[idx + 2] * r), to_rate)
            ELSE IF idx < n_samples THEN ClampInt(samples[idx + 1], 1)
            ELSE 0]

\* struct.unpack(f"<{n}h", data) raises struct.error unless data has 2n
\* bytes, struct.pack(f"<{n}h", *out) for a value outside int16
ResampleRaises(data, from_rate, to_rate) ==
    LET n_samples == Len(data) \div 2
        out == Interpolate(UnpackSamples(data, n_samples), n_samples,
                           from_rate, to_rate)
    IN  /\ from_rate # to_rate
        /\ n_samples # 0
        /\ \/ Len(data) # 2 * n_samples
           \/ \E i \in 1..Len(out) : out[i] \notin Int16

resample_pcm16(data, from_rate, to_rate) ==
    LET n_samples == Len(data) \div 2
    IN  IF from_rate = to_rate THEN data
        ELSE IF n_samples = 0 THEN data
        ELSE PackSamples(Interpolate(UnpackSamples(data, n_samples), n_samples,
                                     from_rate, to_rate))

\* a finished call: the value returned, or an exception
Returned(v) == [raised |-> FALSE, val |-> v]

InitPureIdle ==
    /\ fn = "none"
    /\ arg = <<>>
    /\ returned = FALSE
    /\ outcome = Returned(<<>>)

Return(v) ==
    /\ ~returned
    /\ returned' = TRUE
    /\ outcome' = v
    /\ UNCHANGED <<fn, arg>>
    /\ UNCHANGED <<adapterVars, bridgeVars, sess>>

\* mulaw_to_pcm16(pcm16_to_mulaw(b)) for the buffer b of one sample
CallRoundTrip ==
    /\ fn = "round_trip"
    /\ LET mulaw == pcm16_to_mulaw(PackInt16(arg))
       IN  Return(Returned(<<mulaw, mulaw_to_pcm16(mulaw)>>))

CallPcm16ToMulaw ==
    /\ fn = "pcm16_to_mulaw"
    /\ Return(Returned(pcm16_to_mulaw(arg)))

CallMulawToPcm16 ==
    /\ fn = "mulaw_to_pcm16"
    /\ Return(Returned(mulaw_to_pcm16(arg)))

\* audio.resample_pcm16 and openai_rt._resample_pcm16 have the same body
CallResample ==
    /\ fn \in {"resample_pcm16", "_resample_pcm16"}
    /\ Return(IF ResampleRaises(arg[1], arg[2], arg[3])
              THEN [raised |-> TRUE, val |-> <<>>]
              ELSE Returned(resample_pcm16(arg[1], arg[2], arg[3])))

\* ================================================ tool schema translation
\* openai_rt.py 94-147.  A dict is a function on its keys; a type tag is a
\* string, with str.upper() and str.lower() given for the tags drawn.
MaxDepth == 2
\* deepest nesting of a property schema drawn
MaxTools == 1
\* longest tool list drawn

Upper(t) ==
    CASE t \in {"STRING", "String", "string"} -> "STRING"
      [] t \in {"NUMBER", "number"} -> "NUMBER"
      [] t \in {"INTEGER", "Integer", "integer"} -> "INTEGER"
      [] t \in {"BOOLEAN", "boolean"} -> "BOOLEAN"
      [] t \in {"OBJECT", "object"} -> "OBJECT"
      [] t \in {"ARRAY", "array"} -> "ARRAY"
      [] t \in {"CUSTOM", "Custom", "custom"} -> "CUSTOM"

Lower(t) ==
    CASE t \in {"STRING", "String", "string"} -> "string"
      [] t \in {"NUMBER", "number"} -> "number"
      [] t \in {"INTEGER", "Integer", "integer"} -> "integer"
      [] t \in {"BOOLEAN", "boolean"} -> "boolean"
      [] t \in {"OBJECT", "object"} -> "object"
      [] t \in {"ARRAY", "array"} -> "array"
      [] t \in {"CUSTOM", "Custom", "custom"} -> "custom"

mapping ==
    [STRING |-> "string", NUMBER |-> "number", INTEGER |-> "integer",
     BOOLEAN |-> "boolean", OBJECT |-> "object", ARRAY |-> "array"]

\* mapping.get(t.upper(), t.lower())
gemini_type_to_json_schema(t) ==
    IF Upper(t) \in DOMAIN mapping THEN mapping[Upper(t)] ELSE Lower(t)

CopiedKeys == {"type", "description", "properties", "items", "required", "enum"}

RECURSIVE convert_properties(_)
RECURSIVE ConvertedItemsAsGiven(_)
RECURSIVE Converted(_)

\* faulty variant of Converted: the schema under "items" is copied as it is
ConvertedItemsAsGiven(val) ==
    [k \in DOMAIN val \cap CopiedKeys |->
        CASE k = "type" -> gemini_type_to_json_schema(val[k])
          [] k = "properties" -> convert_properties(val[k])
          [] OTHER -> val[k]]

\* the body of the loop of _convert_properties: the dict built for one
\* property definition
Converted(val) ==
    [k \in DOMAIN val \cap CopiedKeys |->
        CASE k = "type" -> gemini_type_to_json_schema(val[k])
          [] k = "properties" -> convert_properties(val[k])
          [] k = "items" -> convert_properties([x \in {"_"} |-> val[k]])["_"]
          [] OTHER -> val[k]]

convert_properties(props) == [key \in DOMAIN props |-> Converted(props[key])]

gemini_tools_to_openai(tools) ==
    [i \in 1..Len(tools) |->
        LET tool == tools[i]
            params == IF "parameters" \in DOMAIN tool THEN tool.parameters ELSE <<>>
            converted_params ==
                [k \in {"type"} \cup (DOMAIN params \cap {"properties", "required"}) |->
                    CASE k = "type" ->
                             gemini_type_to_json_schema(
                                 IF "type" \in DOMAIN params THEN params.type
                                 ELSE "OBJECT")
                      [] k = "properties" -> convert_properties(params[k])
                      [] OTHER -> params[k]]
        IN  [type |-> "function",
             name |-> tool.name,
             description |->
                 IF "description" \in DOMAIN tool THEN tool.description ELSE "",
             parameters |-> converted_params]]

\* property definitions, nested up to depth through object properties and
\* array items
RECURSIVE Values(_)
Values(depth) ==
    IF depth = 0
    THEN {[type |-> t] : t \in {"STRING", "String", "string", "NUMBER",
                                "Integer", "BOOLEAN", "Custom"}}
             \cup {[type |-> "Integer", description |-> "how many"],
                   [type |-> "string", enum |-> <<"celsius", "fahrenheit">>],
                   [type |-> "NUMBER", format |-> "float"],
                   [description |-> "untyped"]}
    ELSE LET inner == Values(depth - 1)
         IN  inner
                 \cup {[type |-> "OBJECT", properties |-> [a |-> v],
                        required |-> <<"a">>] : v \in inner}
                 \cup {[type |-> "array", items |-> v] : v \in inner}
                 \cup {[type |-> "object", description |-> "pair",
                        properties |-> [a |-> [type |-> "BOOLEAN"],
                                        b |-> [type |-> "String"]]]}

\* lists of tool declarations
ToolLists ==
    LET decls ==
            {[name |-> "lookup", description |-> "look something up",
              parameters |-> [type |-> "OBJECT", properties |-> [q |-> v],
                              required |-> <<"q">>]] : v \in Values(MaxDepth)}
                \cup {[name |-> "ping"],
                      [name |-> "echo",
                       parameters |->
                           [properties |-> [text |-> [type |-> "STRING"]]]]}
    IN  UNION { [1..n -> decls] : n \in 0..MaxTools }

CallToolsToOpenai ==
    /\ fn = "_gemini_tools_to_openai"
    /\ Return(Returned(gemini_tools_to_openai(arg)))

\* ================================================ GeminiSession.receive
\* One server response is translated into the events it yields.  A response
\* has a tool_call (or None) and a server_content (or None).
MaxParts == 2

MaxCalls == 2

\* fc.args is None (<<"None">>) or a dict
FunctionCalls ==
    [name : {"get_weather", "calculate"}, args : {<<"None">>, <<"a">>}, id : Calls]

NoContent ==
    [present |-> FALSE, parts |-> <<>>, input |-> <<>>, output |-> <<>>,
     turn_complete |-> FALSE, interrupted |-> FALSE]

\* model_turn.parts: 0 is a part without inline_data, n > 0 a part whose
\* inline_data.data is the chunk n; input and output are the texts of
\* input_transcription and output_transcription, <<>> when absent or empty
Contents ==
    [present : {TRUE},
     parts : UNION { [1..n -> 0..2] : n \in 0..MaxParts },
     input : {<<>>, <<"u">>}, output : {<<>>, <<"g">>},
     turn_complete : BOOLEAN, interrupted : BOOLEAN]

Responses ==
    { [tool_call |-> TRUE, function_calls |-> fcs, sc |-> sc] :
          fcs \in UNION { [1..n -> FunctionCalls] : n \in 0..MaxCalls },
          sc \in {NoContent, [NoContent EXCEPT !.present = TRUE, !.parts = <<1>>,
                                               !.turn_complete = TRUE]} }
    \cup { [tool_call |-> FALSE, function_calls |-> <<>>, sc |-> sc] :
              sc \in Contents \cup {NoContent} }

\* faulty variant of TurnEvents: the turn signals come before the content
TurnEventsSignalsFirst(sc) ==
    LET inline == SelectSeq(sc.parts, LAMBDA p : p > 0)
    IN  (IF sc.interrupted THEN <<Ev("interrupted")>> ELSE <<>>)
        \o (IF sc.turn_complete THEN <<Ev("turn_complete")>> ELSE <<>>)
        \o [i \in 1..Len(inline) |-> AudioEv(inline[i])]
        \o (IF sc.input # <<>> THEN <<TextEv("transcript_user", sc.input)>> ELSE <<>>)
        \o (IF sc.output # <<>> THEN <<TextEv("transcript_agent", sc.output)>> ELSE <<>>)

\* the five `if` blocks of a server_content, in the order of the code
TurnEvents(sc) ==
    LET inline == SelectSeq(sc.parts, LAMBDA p : p > 0)
    IN  [i \in 1..Len(inline) |-> AudioEv(inline[i])]
        \o (IF sc.input # <<>> THEN <<TextEv("transcript_user", sc.input)>> ELSE <<>>)
        \o (IF sc.output # <<>> THEN <<TextEv("transcript_agent", sc.output)>> ELSE <<>>)
        \o (IF sc.turn_complete THEN <<Ev("turn_complete")>> ELSE <<>>)
        \o (IF sc.interrupted THEN <<Ev("interrupted")>> ELSE <<>>)

\* `if tool_call: for fc in ...: yield TOOL_CALL; continue`,
\* `if not sc: continue`, then the blocks of the server_content
GeminiReceive(resp) ==
    IF resp.tool_call
    THEN [i \in 1..Len(resp.function_calls) |->
             LET fc == resp.function_calls[i]
             IN  ToolCallEv(fc.name, IF fc.args = <<"None">> THEN <<>> ELSE fc.args,
                            fc.id)]
    ELSE IF ~resp.sc.present THEN <<>>
    ELSE TurnEvents(resp.sc)

CallGeminiReceive ==
    /\ fn = "GeminiSession.receive"
    /\ Return(Returned(GeminiReceive(arg)))

\* ======================================================= voice sessions
\* Session objects side by side: each has its own attributes, set in
\* __init__, and its own backend connection.
SessionIds == {"A", "B"}

\* the attributes of one session and of its bridge.  pc is the position of
\* connect(); last observes what the session's connection did last during
\* the handshake and updates the session.update messages sent; closeCalled
\* observes close(); written holds the frames the session's last step wrote
\* to the backend connection from a send_* call.
NewSession(p) ==
    [provider |-> p,
     pc |-> IF p = "openai" THEN "wait_created" ELSE "live",
     last |-> "none",
     updates |-> 0,
     closed |-> FALSE,
     closeCalled |-> FALSE,
     written |-> <<>>,
     in_response |-> FALSE,
     current_fc_args |-> <<>>,
     last_interrupt_id |-> 0,
     current_agent_text |-> <<>>]

InitSessIdle == sess = [s \in SessionIds |-> NewSession("none")]

\* ---------------------------------- OpenAIRealtimeProvider.connect
\* `await asyncio.wait_for(ws.recv(), timeout=10.0)` and the parse of its
\* result give ev: a JSON object ("message"), text that is not a JSON object
\* ("garbage"), a timeout, or the loss of the connection ("lost")

\* faulty variant of AfterWait: a timeout ends the handshake
AfterWaitTimeoutFatal(ev, next) == IF ev = "message" THEN next ELSE "failed"

\* asyncio.TimeoutError is caught and logged; ConnectionClosed is re-raised
\* (first wait) or not caught (second wait); json.loads and first_msg.get
\* raise out of connect
AfterWait(ev, next) == IF ev \in {"lost", "garbage"} THEN "failed" ELSE next

\* faulty variant of Stored: the attributes are shared by all sessions
StoredInClass(s, new) == [t \in SessionIds |-> new]

\* the attributes are instance attributes: a step of session s stores into
\* the object of s
Stored(s, new) == [sess EXCEPT ![s] = new]

WaitCreated(s, ev) ==
    /\ sess[s].pc = "wait_created"
    /\ sess' = Stored(s, [sess[s] EXCEPT !.pc = AfterWait(ev, "send_update"),
                                        !.last = ev])
    /\ UNCHANGED <<adapterVars, bridgeVars, pureVars>>

\* `await ws.send(json.dumps({"type": "session.update", ...}))`
SendUpdate(s, lost) ==
    /\ sess[s].pc = "send_update"
    /\ sess' = Stored(s, IF lost
                         THEN [sess[s] EXCEPT !.pc = "failed", !.last = "lost"]
                         ELSE [sess[s] EXCEPT !.pc = "wait_updated",
                                              !.last = "sent",
                                              !.updates = @ + 1])
    /\ UNCHANGED <<adapterVars, bridgeVars, pureVars>>

\* the second wait; then `session = OpenAIRealtimeSession(ws, config)`
WaitUpdated(s, ev) ==
    /\ sess[s].pc = "wait_updated"
    /\ sess' = Stored(s, [sess[s] EXCEPT !.pc = AfterWait(ev, "live"),
                                        !.last = ev])
    /\ UNCHANGED <<adapterVars, bridgeVars, pureVars>>

\* ------------------------------------------------- send_* and close
\* the frames one call writes when it gets as far as writing
Frames(p, op) ==
    CASE p = "openai" /\ op = "send_audio" -> <<"input_audio_buffer.append">>
      [] p = "openai" /\ op = "send_image" -> <<"conversation.item.create">>
      [] p = "openai" /\ op \in {"send_text", "send_tool_result"} ->
             <<"conversation.item.create", "response.create">>
      [] p = "elevenlabs" /\ op = "send_audio" -> <<"user_audio_chunk">>
      [] p = "elevenlabs" /\ op = "send_text" -> <<"user_message">>
      [] p = "elevenlabs" /\ op = "send_image" -> <<>>
      [] p = "elevenlabs" /\ op = "send_tool_result" -> <<"client_tool_result">>
      [] p = "gemini" /\ op \in {"send_audio", "send_image"} -> <<"realtime_input">>
      [] p = "gemini" /\ op = "send_text" -> <<"client_content">>
      [] p = "gemini" /\ op = "send_tool_result" -> <<"tool_response">>

\* `if self._closed: return` opens the send methods of the two websocket
\* adapters; GeminiSession has no such attribute
ChecksClosed(p) == p \in {"openai", "elevenlabs"}

Send(s, op) ==
    /\ sess[s].pc = "live"
    /\ sess' = Stored(s, [sess[s] EXCEPT !.last = "none",
                                        !.written =
                              IF ChecksClosed(sess[s].provider) /\ sess[s].closed
                              THEN <<>>
                              ELSE Frames(sess[s].provider, op)])
    /\ UNCHANGED <<adapterVars, bridgeVars, pureVars>>

\* close(): `self._closed = True` and the socket is closed; for GeminiSession
\* the body is `pass`
Close(s) ==
    /\ sess[s].pc = "live"
    /\ ~sess[s].closeCalled
    /\ sess' = Stored(s, [sess[s] EXCEPT !.closeCalled = TRUE,
                                        !.closed = ChecksClosed(sess[s].provider),
                                        !.written = <<>>,
                                        !.last = "none"])
    /\ UNCHANGED <<adapterVars, bridgeVars, pureVars>>

\* --------------------------------------------------- inbound frames
\* frames arrive while the backend connection is open
Receives(s, p) ==
    /\ sess[s].pc = "live"
    /\ ~sess[s].closed
    /\ p = "any" \/ sess[s].provider = p

\* response.created / response.done
RxResponse(s, created) ==
    /\ Receives(s, "openai")
    /\ sess' = Stored(s, [sess[s] EXCEPT !.in_response = created, !.written = <<>>,
                                        !.last = "none"])
    /\ UNCHANGED <<adapterVars, bridgeVars, pureVars>>

\* response.function_call_arguments.delta
RxArgsDelta(s) ==
    /\ Receives(s, "openai")
    /\ Len(sess[s].current_fc_args) < MaxCount
    /\ sess' = Stored(s, [sess[s] EXCEPT !.current_fc_args = Append(@, "a"),
                                        !.written = <<>>,
                                        !.last = "none"])
    /\ UNCHANGED <<adapterVars, bridgeVars, pureVars>>

\* response.function_call_arguments.done
RxArgsDone(s) ==
    /\ Receives(s, "openai")
    /\ sess' = Stored(s, [sess[s] EXCEPT !.current_fc_args = <<>>, !.written = <<>>,
                                        !.last = "none"])
    /\ UNCHANGED <<adapterVars, bridgeVars, pureVars>>

\* interruption
RxInterruption(s, id) ==
    /\ Receives(s, "elevenlabs")
    /\ sess' = Stored(s, [sess[s] EXCEPT !.last_interrupt_id = id, !.written = <<>>,
                                        !.last = "none"])
    /\ UNCHANGED <<adapterVars, bridgeVars, pureVars>>

\* the bridge of the session takes a TRANSCRIPT_AGENT event
RxTranscript(s) ==
    /\ Receives(s, "any")
    /\ Len(sess[s].current_agent_text) < MaxCount
    /\ sess' = Stored(s, [sess[s] EXCEPT !.current_agent_text = Append(@, "b"),
                                        !.written = <<>>,
                                        !.last = "none"])
    /\ UNCHANGED <<adapterVars, bridgeVars, pureVars>>

\* the bridge of the session takes TURN_COMPLETE: _flush_transcripts
RxTurnComplete(s) ==
    /\ Receives(s, "any")
    /\ sess' = Stored(s, [sess[s] EXCEPT !.current_agent_text = <<>>,
                                        !.written = <<>>,
                                        !.last = "none"])
    /\ UNCHANGED <<adapterVars, bridgeVars, pureVars>>

SessionStep(s) ==
    \/ \E ev \in {"message", "garbage", "timeout", "lost"} : WaitCreated(s, ev)
    \/ \E lost \in BOOLEAN : SendUpdate(s, lost)
    \/ \E ev \in {"message", "garbage", "timeout", "lost"} : WaitUpdated(s, ev)
    \/ \E op \in {"send_audio", "send_text", "send_image", "send_tool_result"} :
           Send(s, op)
    \/ Close(s)
    \/ \E created \in BOOLEAN : RxResponse(s, created)
    \/ RxArgsDelta(s)
    \/ RxArgsDone(s)
    \/ \E id \in EventIds : RxInterruption(s, id)
    \/ RxTranscript(s)
    \/ RxTurnComplete(s)

\* ================================================================ specs
InitAdapter ==
    /\ adapter \in {"openai", "elevenlabs"}
    /\ InitAdapterIdle
    /\ variant = "none"
    /\ main = "none"
    /\ InitBridgeIdle
    /\ InitPureIdle
    /\ InitSessIdle

SpecAdapter == InitAdapter /\ [][AdapterNext]_vars

InitBridge ==
    /\ variant \in {"direct", "telephony"}
    /\ main = (IF variant = "direct" THEN "config" ELSE "first")
    /\ InitBridgeIdle
    /\ adapter = "none"
    /\ InitAdapterIdle
    /\ InitPureIdle
    /\ InitSessIdle

BridgeNext ==
    \/ TelephonyNext
    \/ DirectNext
    \/ PumpsCancelled
    \/ ClientHangsUp
    \/ BackendDrop

SpecBridge == InitBridge /\ [][BridgeNext]_vars

InitPure ==
    /\ returned = FALSE
    /\ outcome = Returned(<<>>)
    /\ \/ fn = "round_trip" /\ arg \in Int16
       \/ fn \in {"pcm16_to_mulaw", "mulaw_to_pcm16"} /\ arg \in Buffers
       \/ /\ fn \in {"resample_pcm16", "_resample_pcm16"}
          /\ arg \in Buffers \X Rates \X Rates
       \/ fn = "_gemini_tools_to_openai" /\ arg \in ToolLists
       \/ fn = "GeminiSession.receive" /\ arg \in Responses
    /\ adapter = "none"
    /\ InitAdapterIdle
    /\ variant = "none"
    /\ main = "none"
    /\ InitBridgeIdle
    /\ InitSessIdle

PureNext ==
    \/ CallRoundTrip
    \/ CallPcm16ToMulaw
    \/ CallMulawToPcm16
    \/ CallResample
    \/ CallToolsToOpenai
    \/ CallGeminiReceive

SpecPure == InitPure /\ [][PureNext]_vars

InitSessions ==
    /\ sess \in [SessionIds ->
                   {NewSession(p) : p \in {"openai", "elevenlabs", "gemini"}}]
    /\ adapter = "none"
    /\ InitAdapterIdle
    /\ variant = "none"
    /\ main = "none"
    /\ InitBridgeIdle
    /\ InitPureIdle

SessionsNext == \E s \in SessionIds : SessionStep(s)

SpecSessions == InitSessions /\ [][SessionsNext]_vars

\* =============================================================== claims
\* C1: in the direct bridge, once asyncio.wait has returned because one of the
\* four pumps finished, no pump is running any more (each is done, or cancel()
\* has been called on it); past the `async with` the backend session is
\* closed; at the end of the handler the client socket is closed.
C1_DirectTeardown ==
    variant = "direct" =>
        /\ main \in {"exit", "close", "ended"} =>
               \A p \in DirectPumps : pump[p] # "running"
        /\ main \in {"close", "ended"} => session \in {"none", "closed"}
        /\ main = "ended" => ws = "closed"

C1_Witness ==
    /\ variant = "direct"
    /\ main = "ended"
    /\ pump["browser"] = "done"
    /\ \A p \in DirectPumps \ {"browser"} : pump[p] = "cancelled"
    /\ session = "closed"
    /\ ws = "closed"

\* C2: in the telephony bridge, once asyncio.wait has returned because one of
\* the two pumps finished, neither pump is running; when run() reaches its
\* finally the session that was opened is closed; after a `stop` event the
\* caller pump is done and no further caller audio is passed to the adapter.
C2_TelephonyTeardown ==
    variant = "telephony" =>
        /\ main \in {"closing", "finally", "ended"} =>
               \A p \in TelephonyPumps : pump[p] # "running"
        /\ main \in {"finally", "ended"} => session \in {"none", "closed"}
        /\ callObs.stop =>
               /\ pump["twilio"] = "done"
               /\ Len(sentAudio) = callObs.stopAudio

C2_Witness ==
    /\ variant = "telephony"
    /\ main = "ended"
    /\ callObs.stop
    /\ Len(sentAudio) = 1
    /\ pump["provider"] = "cancelled"
    /\ session = "closed"
    /\ bridge_closed

\* C3: when speech-started arrived during a response and that response's done
\* message has status cancelled, exactly one Interrupted event has been
\* emitted for the response.
C3_OneInterruptedPerInterruption ==
    ( /\ adapter = "openai"
      /\ lastFrame.kind = "response.done"
      /\ lastFrame.status = "cancelled"
      /\ lastFrame.inResp
      /\ respObs.speech )
    => respObs.intr = 1

\* C4: an ElevenLabs audio frame whose event id is at or below the id of an
\* interruption processed earlier is not emitted as an Audio event.
C4_NoStaleAudio ==
    ( /\ adapter = "elevenlabs"
      /\ lastFrame.kind = "audio"
      /\ lastFrame.idk # "bad"
      /\ \E k \in intrSeen : IntOf(lastFrame) <= k )
    => CountType(emitted, "audio") = 0

\* C5: a ToolCall is emitted only for a function-call done message, and when
\* that message omits the arguments the ToolCall's args are the JSON parse of
\* the deltas of its own call since the call's item-added message.
C5_ToolCallArgs ==
    adapter = "openai" =>
        /\ CountType(emitted, "tool_call") > 0 =>
               lastFrame.kind = "response.function_call_arguments.done"
        /\ ( /\ lastFrame.kind = "response.function_call_arguments.done"
             /\ ~lastFrame.has
             /\ lastFrame.obsAdded )
           => emitted[1].tool_args = lastFrame.obsArgs

C7_MalformedFrameSkipped ==
    LET f == lastFrame
        malformed ==
            \/ f.kind \in {"notjson", "nonobject"}
            \/ f.idk = "bad"
            \/ /\ f.kind \in {"audio", "response.output_audio.delta"}
               /\ f.text # <<>>
               /\ ~B64Valid(f.text)
    IN  (adapter \in {"openai", "elevenlabs"} /\ malformed) =>
            /\ emitted = <<>>
            /\ rxStream = "open"

\* C8 (as stated): when the backend socket drops during receive(), exactly one
\* Error event is emitted and the stream ends.
C8_DropYieldsOneError ==
    lastFrame.kind = "ConnectionClosed" =>
        /\ CountType(emitted, "error") = 1
        /\ rxStream = "ended"

\* C8 (amended): when the backend socket drops during receive(), no event is
\* emitted for the drop and the stream ends; the consumer's loop finishes only
\* on an ended stream.
C8_DropEndsStreamSilently ==
    /\ lastFrame.kind = "ConnectionClosed" =>
           /\ emitted = <<>>
           /\ rxStream = "ended"
    /\ consumer = "finished" => rxStream = "ended"

C8_Witness ==
    /\ lastFrame.kind = "ConnectionClosed"
    /\ consumer = "finished"
    /\ ~session_closed

\* C9: when the session's opening message names a provider that is not
\* registered, no backend session is opened, and when the handler has ended an
\* error message was sent to the client and the client connection is closed.
C9_UnknownProviderRejected ==
    (provider_name # "" /\ ~Registered(provider_name)) =>
        /\ session = "none"
        /\ main = "ended" => (lastOut.kind = "error" /\ ws = "closed")

\* C10 (as stated): after an Interrupted event the first frame or sink call the
\* telephony bridge makes is the `clear` frame.
C10_ClearAlwaysFirst ==
    callObs.intr.seen =>
        /\ callObs.intr.order # <<>>
        /\ callObs.intr.order[1] = "clear"

\* C10 (amended): when an Interrupted event is processed while the stream id is
\* known and the carrier transport is writable, a `clear` frame carrying that
\* stream id is written before the transcripts are flushed and before any
\* later audio frame; with no stream id or a transport that is gone no `clear`
\* frame is written and the transcripts are flushed all the same.
C10_ClearFirstWhenAddressable ==
    callObs.intr.seen =>
        LET o == callObs.intr
        IN  IF o.sid # "" /\ o.wsOpen
            THEN /\ o.order # <<>>
                 /\ o.order[1] = "clear"
                 /\ \A i \in 2..Len(o.order) : o.order[i] # "clear"
                 /\ provPc = "flush" => lastOut = Out("clear", o.sid)
            ELSE \A i \in 1..Len(o.order) : o.order[i] # "clear"

C10_Witness ==
    /\ callObs.intr.seen
    /\ callObs.intr.order = <<"clear", "sink">>
    /\ lastFlush # <<>>
    /\ provPc = "recv"

\* C11 (as amended): in the telephony bridge a step that handles a transcript
\* fragment makes no sink call; a step that calls the sink is the handling of
\* TurnComplete or of Interrupted, it calls the sink for the caller before the
\* agent, each call carries the concatenation of the fragments of that role
\* received since the previous flush with the surrounding whitespace removed,
\* a role whose concatenation is empty or blank gets no call, and both buffers
\* are empty afterwards, so that no fragment is delivered twice.
C11_FlushCarriesStrippedText ==
    [][(variant = "telephony" /\ (nBackend' # nBackend \/ provPc' # provPc)) =>
        LET grew == \/ Len(current_caller_text') > Len(current_caller_text)
                    \/ Len(current_agent_text') > Len(current_agent_text)
            handled == nBackend' # nBackend \/ provPc' # provPc
            called == handled /\ lastFlush' # <<>>
            c == Strip(current_caller_text)
            a == Strip(current_agent_text)
            roles == (IF c # <<>> THEN <<"caller">> ELSE <<>>)
                     \o (IF a # <<>> THEN <<"agent">> ELSE <<>>)
        IN  /\ grew => lastFlush' = <<>>
            /\ called =>
                  /\ \/ \E raises \in SinkFailures : PvTurnComplete(raises)
                     \/ \E raises \in SinkFailures : PvInterruptedFlush(raises)
                  /\ Len(lastFlush') = Len(roles)
                  /\ \A i \in 1..Len(roles) :
                        /\ lastFlush'[i].role = roles[i]
                        /\ lastFlush'[i].text = IF roles[i] = "caller" THEN c ELSE a
                  /\ current_caller_text' = <<>>
                  /\ current_agent_text' = <<>>
    ]_vars

\* a flush that called the sink for the caller and then for the agent
C11_Witness ==
    /\ variant = "telephony"
    /\ Len(lastFlush) = 2
    /\ lastFlush[1].role = "caller"
    /\ lastFlush[2].role = "agent"
    /\ current_caller_text = <<>>
    /\ current_agent_text = <<>>

\* C11 (as stated): every sink call carries the concatenation of the
\* fragments of its role received since the previous flush, unchanged.
C11_FlushCarriesConcatenation ==
    [][variant = "telephony" =>
        LET handled == nBackend' # nBackend \/ provPc' # provPc
            called == handled /\ lastFlush' # <<>>
        IN  called =>
              \A i \in 1..Len(lastFlush') :
                 lastFlush'[i].text = IF lastFlush'[i].role = "caller"
                                      THEN current_caller_text
                                      ELSE current_agent_text
    ]_vars

\* C12: in the telephony variant the backend connection is opened, the two
\* pumps are started and caller audio is passed to the adapter only after a
\* `start` event has been read from the client transport.
C12_NothingBeforeStart ==
    (variant = "telephony" /\ ~callObs.start) =>
        /\ session = "none"
        /\ sentAudio = <<>>
        /\ \A p \in TelephonyPumps : pump[p] = "idle"
        /\ main \in {"first", "start", "ended"}

\* caller audio reached the adapter of a call whose `start` event was read
C12_Witness ==
    /\ variant = "telephony"
    /\ callObs.start
    /\ session = "open"
    /\ sentAudio # <<>>

\* C13: a step of the telephony bridge that handles a provider event writes
\* a `media` or `clear` frame only while the bridge is not closed and the
\* stream id is not empty, and the frame carries the stream id most recently
\* supplied by a `start` event or injected by the webhook; with an empty
\* stream id the event writes nothing.
C13_FramesCarryCurrentStreamSid ==
    [][(variant = "telephony" /\ nBackend' # nBackend) =>
        /\ lastOut'.kind \in {"media", "clear", "none"}
        /\ lastOut'.kind \in {"media", "clear"} =>
              /\ callObs.supplied # ""
              /\ lastOut'.streamSid = callObs.supplied
              /\ ~bridge_closed
        /\ callObs.supplied = "" => lastOut'.kind = "none"
    ]_vars

\* an audio frame went out under the stream id a later `start` event supplied
C13_Witness ==
    /\ variant = "telephony"
    /\ nClient > 0
    /\ lastOut = Out("media", "MZ1")
    /\ callObs.supplied = "MZ1"
    /\ ~bridge_closed

\* C14: in the telephony bridge a frame of the client transport that cannot
\* be parsed is ignored: nothing is passed to the adapter for it and the task
\* that reads the client transport goes on running, so that the bridge is not
\* torn down.
C14_UnparseableFrameIgnored ==
    [][TwRecvUnparseable =>
        /\ sentAudio' = sentAudio
        /\ pump'["twilio"] = "running"
    ]_vars

\* C15 (as amended): in the direct bridge the audio chunks passed to the
\* backend are, at every moment, the first non-empty binary frames received
\* from the client, in the order of their arrival, each once; the chunks not
\* yet passed wait in the same order; the same holds for text messages.
C15_ForwardedInArrivalOrder ==
    variant = "direct" =>
        /\ \A i \in 1..Len(sentAudio) : sentAudio[i] = i
        /\ \A i \in 1..Len(sentText) : sentText[i].n = i
        /\ pump["audio"] = "running" =>
              \A i \in 1..Len(audio_queue) : audio_queue[i] = Len(sentAudio) + i
        /\ pump["text"] = "running" =>
              \A i \in 1..Len(text_queue) : text_queue[i].n = Len(sentText) + i

\* two chunks were received and passed on in the order of their arrival
C15_Witness ==
    /\ variant = "direct"
    /\ sentAudio = <<1, 2>>
    /\ audio_queue = <<>>

\* C15 (as stated): every frame the client pump reads is queued for the
\* backend, so that what is passed on is a prefix of what was received,
\* without a gap.
C15_EveryFrameForwarded ==
    [][(variant = "direct" /\ nClient' # nClient /\ pump' = pump) =>
        \/ Len(audio_queue') = Len(audio_queue) + 1
        \/ Len(text_queue') = Len(text_queue) + 1
    ]_vars

\* C16: every JSON message the direct bridge writes to the client has a type
\* among session_started, user, agent, tool_call, turn_complete, interrupted
\* and error (binary frames carry audio and have no type); in particular a
\* fragment of the agent transcript goes out with type "agent".
C16_ClientMessageTypes ==
    (variant = "direct" /\ lastOut.kind \notin {"none", "bytes"}) =>
        lastOut.kind \in {"session_started", "user", "agent", "tool_call",
                          "turn_complete", "interrupted", "error"}

\* C17 (as amended): in the direct bridge the results of a tool-call message
\* are handed to the backend only after every call of the message has been
\* executed and forwarded to the client as a tool_call message, the last write
\* to the client before the hand-over being such a message; in the telephony
\* bridge a tool call is executed and its result handed to the adapter, and
\* nothing is written to the client for it.
C17_ExecuteForwardSend ==
    [][LET sends == IF variant = "direct"
                    THEN batch.active /\ ~batch'.active /\ toolSent' # <<>>
                    ELSE nBackend' # nBackend /\ toolSent' # <<>>
       IN  sends =>
             /\ Len(toolCalls') = Len(toolSent')
             /\ \A i \in 1..Len(toolSent') :
                   /\ toolSent'[i].tool_id = toolCalls'[i].tool_id
                   /\ toolSent'[i].result = toolCalls'[i].result
             /\ variant = "direct" =>
                   /\ batch.pending = <<>>
                   /\ Len(batch.responses) = Len(toolCalls)
                   /\ lastOut = Out("tool_call", "")
                   /\ lastOut' = lastOut
             /\ variant = "telephony" => lastOut' = Out("none", "")
    ]_vars

\* the two calls of one message were executed, forwarded and answered
C17_Witness ==
    /\ variant = "direct"
    /\ ~batch.active
    /\ Len(toolCalls) = 2
    /\ Len(toolSent) = 2
    /\ lastOut = Out("tool_call", "")

\* C17 (as stated): whenever a bridge hands a tool result to the adapter, the
\* call and its result have been forwarded to the client as a tool_call
\* message before.
C17_ForwardNeverSkipped ==
    [][LET sends == IF variant = "direct"
                    THEN batch.active /\ ~batch'.active /\ toolSent' # <<>>
                    ELSE nBackend' # nBackend /\ toolSent' # <<>>
       IN  sends => lastOut'.kind = "tool_call"
    ]_vars

\* C18: an Error event received from the adapter is surfaced to the client
\* and does not terminate the bridge: the step that handles it writes an error
\* message to the client and leaves every pump running.
C18_ErrorSurfaced ==
    [][PvError =>
        /\ lastOut'.kind = "error"
        /\ pump' = pump
    ]_vars

\* C19: execute_tool returns a string and never raises, whatever the tool
\* name (built in or not) and the arguments (empty mapping, parameter given,
\* not a mapping at all, expression that cannot be evaluated); a bridge that
\* handles a tool call therefore hands a result for it to the backend and its
\* pump goes on running.
C19_ToolCallsAlwaysAnswered ==
    [][(toolCalls' # toolCalls \/ toolSent' # toolSent \/ batch' # batch
          \/ (nBackend' # nBackend /\ pump' # pump)) =>
        LET IsString(r) == Len(r) > 0 /\ \A i \in 1..Len(r) : r[i] \in STRING
        IN  /\ \A name \in BuiltIn \cup {"lookup"}, args \in ToolArgs \cup {NotMapping} :
                  /\ ~Escapes(name, args)
                  /\ IsString(ExecuteTool(name, args))
            /\ \A req \in ToolRequests :
                  PvToolCall(req[1], req[2]) =>
                     /\ pump' = pump
                     /\ Len(toolSent') = 1
                     /\ toolSent'[1].tool_id = req[1]
                     /\ IsString(toolSent'[1].result)
            /\ (GemToolStep /\ ws = "open") =>
                     /\ pump' = pump
                     /\ Len(batch'.responses) = Len(batch.responses) + 1
                     /\ IsString(batch'.responses[Len(batch'.responses)].result)
    ]_vars

\* a call whose arguments are not a mapping was answered with an error text
\* and the provider pump is still running
C19_Witness ==
    /\ variant = "telephony"
    /\ Running("provider")
    /\ Len(toolSent) = 1
    /\ toolSent[1].result = <<"Error executing", "get_weather">>
    /\ toolCalls[1].tool_args = NotMapping

\* C20: a sink callback that raises does not terminate the telephony bridge:
\* whichever on_transcript calls of a flush raise, the flush leaves every pump
\* as it was, with the provider pump back at its receive point, delivers the
\* agent text if there is any and resets both buffers; and whether or not
\* on_call_end raises, run() ends normally.
C20_SinkFailureTolerated ==
    [][(variant = "telephony" /\ (nBackend' # nBackend \/ provPc' # provPc
                                    \/ main' # main)) =>
        /\ \A raises \in SinkFailures :
             (PvTurnComplete(raises) \/ PvInterruptedFlush(raises)) =>
                /\ pump' = pump
                /\ provPc' = "recv"
                /\ current_caller_text' = <<>>
                /\ current_agent_text' = <<>>
                /\ Strip(current_agent_text) # <<>> =>
                      \E i \in 1..Len(lastFlush') :
                         /\ lastFlush'[i].role = "agent"
                         /\ lastFlush'[i].text = Strip(current_agent_text)
        /\ \A raises \in BOOLEAN :
             BridgeFinally(raises) =>
                /\ main' = "ended"
                /\ pump' = pump
                /\ callObs'.callEnds = Cap(callObs.callEnds)
    ]_vars

\* the call for the caller text raised, the agent text was delivered after it
\* and the provider pump is running
C20_Witness ==
    /\ variant = "telephony"
    /\ Running("provider")
    /\ provPc = "recv"
    /\ Len(lastFlush) = 2
    /\ lastFlush[1].role = "caller" /\ lastFlush[1].raised
    /\ lastFlush[2].role = "agent" /\ ~lastFlush[2].raised
    /\ current_caller_text = <<>>
    /\ current_agent_text = <<>>


\* C22: for every ping frame received while the session stays open, one pong
\* carrying that ping's event id is sent: a pong task that finishes while the
\* session is open has written its pong.
C22_PongForEveryPing ==
    [][\A p \in pongs :
          (p \notin pongs' /\ ~session_closed) => p[1] \in pongsSent']_vars


\* C30: the interruption watermark _last_interrupt_id never decreases, whatever
\* frames arrive, an interruption with a lower or a missing event id included.
C30_WatermarkNeverDecreases ==
    [][last_interrupt_id' >= last_interrupt_id]_vars


\* C24: every response.done message yields exactly one event, Interrupted when
\* its status is cancelled and TurnComplete otherwise; when it has status
\* completed and follows an audio delta that carried audio, the delta yielded
\* exactly one Audio event and the done message one TurnComplete after it.
C24_DoneYieldsOneEvent ==
    [][(lastFrame'.kind = "response.done" /\ rxStream' = "open") =>
          /\ Len(emitted') = 1
          /\ emitted'[1].type =
                 (IF lastFrame'.status = "cancelled"
                  THEN "interrupted" ELSE "turn_complete")
          /\ (/\ lastFrame.kind = "response.output_audio.delta"
              /\ lastFrame.text # <<>>
              /\ rxStream = "open"
              /\ lastFrame'.status = "completed") =>
                 /\ Len(emitted) = 1
                 /\ emitted[1].type = "audio"
                 /\ emitted'[1].type = "turn_complete"]_vars

C24_Witness ==
    /\ adapter = "openai"
    /\ lastFrame.kind = "response.done"
    /\ lastFrame.status = "completed"
    /\ lastFrame.inResp
    /\ emitted = <<Ev("turn_complete")>>
    /\ rxStream = "open"


\* C25: no codec operation fails on a malformed buffer: for every byte string,
\* odd-length ones included, and every pair of rates, pcm16_to_mulaw and the
\* two resamplers return without raising, having processed the floor(len/2)
\* full samples and dropped a trailing odd byte.
C25_NoCodecFailure ==
    (returned /\ fn \in {"pcm16_to_mulaw", "resample_pcm16", "_resample_pcm16"}) =>
        /\ ~outcome.raised
        /\ fn = "pcm16_to_mulaw" => Len(outcome.val) = Len(arg) \div 2
        /\ fn # "pcm16_to_mulaw" => Len(outcome.val) % 2 = 0

\* C26: for a PCM16 input of n samples and each of the rate pairs
\* (8000, 16000), (16000, 24000), (24000, 8000), resample_pcm16 returns
\* exactly floor(n * to_rate / from_rate) samples, each a signed 16-bit value.
C26_ResampleLength ==
    (/\ returned
     /\ fn \in {"resample_pcm16", "_resample_pcm16"}
     /\ Len(arg[1]) % 2 = 0
     /\ <<arg[2], arg[3]>> \in {<<8000, 16000>>, <<16000, 24000>>, <<24000, 8000>>}) =>
        LET n == Len(arg[1]) \div 2
            out == outcome.val
        IN  /\ ~outcome.raised
            /\ Len(out) = 2 * ((n * arg[3]) \div arg[2])
            /\ \A i \in 1..(Len(out) \div 2) :
                   UnpackInt16(out[(2 * i) - 1], out[2 * i]) \in Int16

C26_Witness ==
    /\ returned
    /\ fn = "resample_pcm16"
    /\ Len(arg[1]) = 6
    /\ arg[2] = 24000
    /\ arg[3] = 8000
    /\ ~outcome.raised
    /\ Len(outcome.val) = 2

\* C27: for every signed 16-bit sample x the decoded mu-law code of x has the
\* sign of x or is zero and differs from x saturated to [-32635, 32635] by at
\* most half the quantisation step of its segment, which is at most 512;
\* encoding yields one byte per sample and decoding one sample per byte.
C27_RoundTripError ==
    /\ (returned /\ fn = "round_trip") =>
           LET x == arg
               mulaw == outcome.val[1]
               pcm == outcome.val[2]
               y == UnpackInt16(pcm[1], pcm[2])
               sat == IF x > 32635 THEN 32635 ELSE IF x < -32635 THEN -32635 ELSE x
               half == 2 ^ ((((255 - mulaw[1]) \div 16) % 8) + 2)
               diff == IF y >= sat THEN y - sat ELSE sat - y
           IN  /\ Len(mulaw) = 1
               /\ Len(pcm) = 2
               /\ x >= 0 => y >= 0
               /\ x <= 0 => y <= 0
               /\ diff <= half
               /\ half <= 512
    /\ (returned /\ fn = "pcm16_to_mulaw" /\ Len(arg) % 2 = 0) =>
           2 * Len(outcome.val) = Len(arg)
    /\ (returned /\ fn = "mulaw_to_pcm16") => Len(outcome.val) = 2 * Len(arg)

C27_Witness ==
    /\ returned
    /\ fn = "round_trip"
    /\ arg = -32768
    /\ outcome.val[1] = <<0>>
    /\ UnpackInt16(outcome.val[2][1], outcome.val[2][2]) = -32124


\* C28: the tool-schema translation keeps the structure one to one: every
\* property at every nesting depth (object properties, array items) appears
\* with its description, enum and required list unchanged and its type tag
\* mapped to the lower-case JSON-Schema name whatever its case; a tag that is
\* not recognised is passed through lower-cased.
C28_SchemaStructureKept ==
    (returned /\ fn = "_gemini_tools_to_openai") =>
        LET Expected(t) ==
                CASE Upper(t) = "STRING" -> "string"
                  [] Upper(t) = "NUMBER" -> "number"
                  [] Upper(t) = "INTEGER" -> "integer"
                  [] Upper(t) = "BOOLEAN" -> "boolean"
                  [] Upper(t) = "OBJECT" -> "object"
                  [] Upper(t) = "ARRAY" -> "array"
                  [] OTHER -> Lower(t)
            RECURSIVE Kept(_, _)
            Kept(v, o) ==
                /\ \A k \in CopiedKeys : k \in DOMAIN o <=> k \in DOMAIN v
                /\ \A k \in DOMAIN v \cap {"description", "enum", "required"} :
                       o[k] = v[k]
                /\ "type" \in DOMAIN v => o.type = Expected(v.type)
                /\ "properties" \in DOMAIN v =>
                       /\ DOMAIN o.properties = DOMAIN v.properties
                       /\ \A p \in DOMAIN v.properties :
                              Kept(v.properties[p], o.properties[p])
                /\ "items" \in DOMAIN v => Kept(v.items, o.items)
            out == outcome.val
        IN  /\ ~outcome.raised
            /\ Len(out) = Len(arg)
            /\ \A i \in 1..Len(arg) :
                   /\ out[i].name = arg[i].name
                   /\ "parameters" \in DOMAIN arg[i] =>
                          /\ \A k \in {"properties", "required"} :
                                 k \in DOMAIN out[i].parameters
                                     <=> k \in DOMAIN arg[i].parameters
                          /\ "required" \in DOMAIN arg[i].parameters =>
                                 out[i].parameters.required
                                     = arg[i].parameters.required
                          /\ "properties" \in DOMAIN arg[i].parameters =>
                                 /\ DOMAIN out[i].parameters.properties
                                        = DOMAIN arg[i].parameters.properties
                                 /\ \A p \in DOMAIN arg[i].parameters.properties :
                                        Kept(arg[i].parameters.properties[p],
                                             out[i].parameters.properties[p])

C28_Witness ==
    /\ returned
    /\ fn = "_gemini_tools_to_openai"
    /\ Len(arg) = 1
    /\ arg[1].name = "lookup"
    /\ arg[1].parameters.properties.q =
           [type |-> "array",
            items |-> [type |-> "OBJECT", required |-> <<"a">>,
                       properties |-> [a |-> [type |-> "Custom"]]]]
    /\ outcome.val[1].parameters.properties.q =
           [type |-> "array",
            items |-> [type |-> "object", required |-> <<"a">>,
                       properties |-> [a |-> [type |-> "custom"]]]]


\* C21: in every adapter, once close() has been called no later call of
\* send_audio, send_text, send_image or send_tool_result writes a frame to the
\* backend connection.
C21_NoWriteAfterClose ==
    \A s \in SessionIds : sess[s].closeCalled => sess[s].written = <<>>

\* C23: in OpenAIRealtimeProvider.connect a wait that times out does not end
\* the handshake: exactly one session.update is sent and a live session is
\* returned; when the connection is lost during the handshake connect fails
\* and there is no session to call.
C23_HandshakeOutcome ==
    \A s \in SessionIds :
        sess[s].provider = "openai" =>
            /\ sess[s].updates <= 1
            /\ sess[s].pc \in {"wait_updated", "live"} => sess[s].updates = 1
            /\ sess[s].last = "timeout" => sess[s].pc \in {"send_update", "live"}
            /\ sess[s].last = "lost" => sess[s].pc = "failed"
            /\ sess[s].pc = "failed" =>
                   /\ ~sess[s].closeCalled
                   /\ sess[s].written = <<>>
                   /\ ~sess[s].in_response
            /\ (sess[s].pc = "live" /\ sess[s].last # "none") => ~sess[s].closed

C23_Witness ==
    /\ sess["A"].provider = "openai"
    /\ sess["A"].pc = "live"
    /\ sess["A"].last = "timeout"
    /\ sess["A"].updates = 1
    /\ sess["B"].provider = "openai"
    /\ sess["B"].pc = "failed"
    /\ sess["B"].last = "lost"
    /\ sess["B"].updates = 1

\* C29: two sessions running side by side are isolated: a step of one session
\* (a frame it receives, an event its bridge takes, a send or close call)
\* never changes the tool-call accumulator, the in-response flag, the
\* interruption watermark, the transcript buffer or the outbound frames of
\* the other.
C29_SessionsIsolated ==
    [][\A t \in SessionIds :
          (\/ sess'[t].current_fc_args # sess[t].current_fc_args
           \/ sess'[t].in_response # sess[t].in_response
           \/ sess'[t].last_interrupt_id # sess[t].last_interrupt_id
           \/ sess'[t].current_agent_text # sess[t].current_agent_text
           \/ sess'[t].written # sess[t].written) =>
              \A s \in SessionIds \ {t} : ~SessionStep(s)]_vars

C29_Witness ==
    /\ sess["A"].provider = "openai"
    /\ sess["B"].provider = "openai"
    /\ sess["A"].in_response
    /\ sess["A"].current_fc_args = <<"a">>
    /\ sess["A"].current_agent_text = <<"b">>
    /\ sess["B"].pc = "live"
    /\ ~sess["B"].in_response
    /\ sess["B"].current_fc_args = <<>>
    /\ sess["B"].current_agent_text = <<>>
    /\ sess["B"].written = <<"input_audio_buffer.append">>

\* C31: the function-call accumulator is per call: the ToolCall yielded for a
\* done message of a call that had an item-added message carries that call's
\* id, that call's name when the message omits the name, and the JSON parse
\* of that call's own deltas when the message omits the arguments; and after
\* the done message the accumulator is empty.
C31_AccumulatorPerCall ==
    ( /\ adapter = "openai"
      /\ lastFrame.kind = "response.function_call_arguments.done"
      /\ lastFrame.obsAdded )
    => /\ Len(emitted) = 1
       /\ emitted[1].type = "tool_call"
       /\ emitted[1].tool_id = lastFrame.call
       /\ ~lastFrame.hasName => emitted[1].tool_name = NameOf(lastFrame.call)
       /\ ~lastFrame.has => emitted[1].tool_args = lastFrame.obsArgs
       /\ current_fc_name = "" /\ current_fc_args = <<>>
       /\ current_fc_call_id = "" /\ current_fc_item_id = ""

\* C32: once a speech-started message has yielded an Interrupted event for
\* the response in progress, an audio delta that arrives before the next
\* response-created message yields no Audio event.
C32_NoAudioAfterInterrupted ==
    ( /\ adapter = "openai"
      /\ lastFrame.kind = "response.output_audio.delta"
      /\ respObs.speech
      /\ respObs.intr > 0 )
    => CountType(emitted, "audio") = 0

\* C33: a speech-started message yields exactly one Interrupted event when a
\* response-created message has been received and no response-done message
\* since, and no event at all otherwise.
C33_InterruptedIffResponseInProgress ==
    ( /\ adapter = "openai"
      /\ lastFrame.kind = "input_audio_buffer.speech_started" )
    => emitted = IF respObs.open THEN <<Ev("interrupted")>> ELSE <<>>

\* a speech-started message has interrupted the response in progress
C33_Witness ==
    /\ adapter = "openai"
    /\ lastFrame.kind = "input_audio_buffer.speech_started"
    /\ respObs.open
    /\ emitted = <<Ev("interrupted")>>

\* C34: a step in which a scheduled pong task finishes writes a pong only if
\* close() has not been called, and it leaves the receive loop as it is: the
\* stream stays open or ended as before, no event is yielded and no frame is
\* consumed, also when the send fails or the session was closed during the delay.
C34_NoPongAfterClose ==
    [][(pongs' # pongs /\ pongs' \subseteq pongs) =>
          /\ (pongsSent' # pongsSent => ~session_closed)
          /\ UNCHANGED <<rxStream, consumer, lastFrame, emitted, session_closed>>]_vars

\* close() was called while a pong task was pending; the task has finished
\* since and no pong is recorded as written
C34_Witness ==
    /\ adapter = "elevenlabs"
    /\ session_closed
    /\ lastFrame.kind = "close"
    /\ lastFrame.has
    /\ pongs = {}
    /\ pongsSent = {}

C36_GeminiEvents ==
    (fn = "GeminiSession.receive" /\ returned) =>
        LET evs == outcome.val
            fcs == arg.function_calls
            sc == arg.sc
            Rank(t) == CASE t = "audio" -> 1
                         [] t = "transcript_user" -> 2
                         [] t = "transcript_agent" -> 3
                         [] t = "turn_complete" -> 4
                         [] t = "interrupted" -> 5
                         [] OTHER -> 0
            audio == SelectSeq(evs, LAMBDA e : e.type = "audio")
            inline == SelectSeq(sc.parts, LAMBDA p : p # 0)
        IN  /\ ~outcome.raised
            /\ arg.tool_call =>
                  /\ Len(evs) = Len(fcs)
                  /\ \A i \in 1..Len(fcs) :
                        /\ evs[i].type = "tool_call"
                        /\ evs[i].tool_name = fcs[i].name
                        /\ evs[i].tool_id = fcs[i].id
                        /\ fcs[i].args # <<"None">> => evs[i].tool_args = fcs[i].args
            /\ ~arg.tool_call =>
                  /\ \A i \in 1..Len(evs) : Rank(evs[i].type) > 0
                  /\ \A i, j \in 1..Len(evs) :
                        i < j => Rank(evs[i].type) <= Rank(evs[j].type)
                  /\ Len(audio) = Len(inline)
                  /\ \A i \in 1..Len(audio) : audio[i].data = inline[i]
                  /\ CountType(evs, "transcript_user") <= 1
                  /\ CountType(evs, "transcript_agent") <= 1
                  /\ \A i \in 1..Len(evs) :
                        /\ evs[i].type = "transcript_user" => evs[i].text = sc.input
                        /\ evs[i].type = "transcript_agent" => evs[i].text = sc.output
                  /\ CountType(evs, "turn_complete") = IF sc.turn_complete THEN 1 ELSE 0
                  /\ CountType(evs, "interrupted") = IF sc.interrupted THEN 1 ELSE 0

\* a turn message with audio, both transcripts and both flags has been
\* translated into its five kinds of events
C36_Witness ==
    /\ fn = "GeminiSession.receive"
    /\ returned
    /\ ~arg.tool_call
    /\ arg.sc.turn_complete
    /\ arg.sc.interrupted
    /\ Len(outcome.val) >= 5
    /\ outcome.val[Len(outcome.val)].type = "interrupted"

\* C37 (as stated): in the direct bridge, from the moment one of the four
\* pumps has finished, no step passes an audio chunk or a text message to
\* the backend.
C37_NoSendAfterFirstPumpDone ==
    [][(variant = "direct" /\ \E p \in DirectPumps : pump[p] = "done") =>
          (sentAudio' = sentAudio /\ sentText' = sentText)]_vars

\* C37 (amended): in the direct bridge, from the moment asyncio.wait has
\* returned and cancel() has been called on the pending pumps, no step passes
\* an audio chunk or a text message to the backend, whatever is still waiting
\* in the hand-off queues.
C37_NoSendAfterCancel ==
    [][(variant = "direct" /\ main \in {"exit", "close", "ended"}) =>
          (sentAudio' = sentAudio /\ sentText' = sentText)]_vars

\* the handler has ended with a chunk and a text message still in the queues
C37_Witness ==
    /\ variant = "direct"
    /\ main = "ended"
    /\ audio_queue # <<>>
    /\ text_queue # <<>>
    /\ pump["audio"] = "cancelled"
    /\ pump["text"] = "cancelled"

\* C38: in the direct bridge every step that receives a non-empty client text
\* frame, of whatever kind, puts exactly one entry on the text queue and
\* leaves the client-inbound pump running.
C38_TextFrameQueuedOnce ==
    [][(variant = "direct" /\ nClient' = nClient + 1) =>
          \A kind \in TextKinds :
             BrowserText(kind) =>
                /\ Len(text_queue') = Len(text_queue) + 1
                /\ pump'["browser"] = "running"]_vars

\* C39: on_call_end is never invoked twice and never before run() is in its
\* last step; when it has been invoked the bridge is marked closed, the
\* session that was opened is closed and no pump is running; and whenever
\* run() has been entered and the handler has ended - after a stop, a
\* transport error, the end of the adapter stream or a failed connect -
\* on_call_end has been invoked exactly once.
C39_CallEndExactlyOnce ==
    variant = "telephony" =>
        /\ callObs.callEnds <= 1
        /\ main # "ended" => callObs.callEnds = 0
        /\ callObs.callEnds = 1 =>
               /\ callObs.run
               /\ bridge_closed
               /\ session \in {"none", "closed"}
               /\ \A p \in TelephonyPumps : pump[p] # "running"
        /\ (main = "ended" /\ callObs.run) => callObs.callEnds = 1

\* the adapter stream ended, the caller pump was cancelled, the session was
\* closed and on_call_end has been invoked once
C39_Witness ==
    /\ variant = "telephony"
    /\ main = "ended"
    /\ callObs.run
    /\ pump["provider"] = "done"
    /\ pump["twilio"] = "cancelled"
    /\ session = "closed"
    /\ bridge_closed
    /\ callObs.callEnds = 1

\* C40: in the telephony bridge no step taken after asyncio.wait has returned
\* - cancelling the pending pump, closing the session, the finally block of
\* run() - calls the transcript sink or touches the transcript buffers: text
\* accumulated since the last flush stays in the buffers and is delivered
\* nowhere.
C40_NoFlushAtTeardown ==
    [][(variant = "telephony" /\ main \in {"closing", "finally", "ended"}) =>
          /\ lastFlush' = lastFlush
          /\ current_caller_text' = current_caller_text
          /\ current_agent_text' = current_agent_text]_vars

\* run() has ended with transcript text of both roles still in the buffers
\* and no sink call made for it
C40_Witness ==
    /\ variant = "telephony"
    /\ main = "ended"
    /\ bridge_closed
    /\ Strip(current_caller_text) # <<>>
    /\ Strip(current_agent_text) # <<>>
    /\ lastFlush = <<>>

====
